---- MODULE Spec2Model ----
(***************************************************************************)
(* A model of the transcribe toolkit's core: the timestamp codec, the      *)
(* WebVTT document engine (parseVTT, serializeVTT, mergeVTT) and the chunk *)
(* planner (splitAudio, calculateChunkCount).                              *)
(*                                                                         *)
(* Strings are sequences of one-character strings, so that split, trim,    *)
(* includes, padStart, parseInt and parseFloat are computed character by   *)
(* character as the JavaScript does.  A seconds value is an integer count  *)
(* of ticks of 10^-FracDigits second (a decimal fixed-point number); the   *)
(* planner's durations are exact rationals.  IEEE-754 rounding below that  *)
(* resolution is not modelled.                                             *)
(***************************************************************************)
EXTENDS Integers, Sequences, FiniteSets, TLC

\* ------------------------------------------------------------------ bounds

\* Decimal digits of a second that a seconds value carries in the model.
FracDigits == 4
\* Largest hours field of the sampled seconds values.
MaxHours == 2
\* Longest cue sequence given to serializeVTT.
MaxCues == 2
\* Longest {vtt, offset} list given to mergeVTT.
MaxChunks == 2
\* Largest totalDuration and largest maxChunkDuration of the sampled plans,
\* which step by halves from -1.
MaxTotal == 5
MaxLimit == 2
\* Most lines of a hand-written document given to parseVTT.
MaxLines == 4
\* Most lines after the lead block of a two-block document.
MaxTail == 2
\* Most lines of the text Gemini answers with.
MaxTranscriptLines == 2
\* Most arguments after the name of the process command.
MaxArgs == 3

RECURSIVE Pow10(_)
Pow10(n) == IF n <= 0 THEN 1 ELSE 10 * Pow10(n - 1)

TicksPerSec == Pow10(FracDigits)
TicksPerMs == TicksPerSec \div 1000

\* The value parseInt and parseFloat return for text that holds no number.
\* It lies outside every seconds value the model reaches.
NaN == 0 - 2 * Pow10(9)

Abs(x) == IF x < 0 THEN 0 - x ELSE x

\* ----------------------------------------------------------------- strings

NL == "\n"
WhiteSpace == {" ", "\t", "\r"}
Digit == <<"0", "1", "2", "3", "4", "5", "6", "7", "8", "9">>
\* A plausible slip: the delimiter test looks for the arrow's head only
ArrowHeadOnly == <<">">>
\* The timestamp-range delimiter
Arrow == <<"-", "-", ">">>

IsDigit(c) == \E d \in 1..10 : Digit[d] = c
DigitVal(c) == (CHOOSE d \in 1..10 : Digit[d] = c) - 1

\* String(n) for an integer n
RECURSIVE NatToStr(_)
NatToStr(n) ==
  IF n < 10 THEN <<Digit[n + 1]>>
  ELSE NatToStr(n \div 10) \o <<Digit[(n % 10) + 1]>>

NumToStr(n) ==
  IF n = NaN THEN <<"N", "a", "N">>
  ELSE IF n < 0 THEN <<"-">> \o NatToStr(0 - n) ELSE NatToStr(n)

\* String.prototype.padStart(len, c)
padStart(s, len, c) ==
  IF Len(s) >= len THEN s ELSE [k \in 1..(len - Len(s)) |-> c] \o s

\* String.prototype.indexOf, 1-based; 0 when sub does not occur in s
RECURSIVE IndexFrom(_, _, _)
IndexFrom(s, sub, i) ==
  IF i + Len(sub) - 1 > Len(s) THEN 0
  ELSE IF SubSeq(s, i, i + Len(sub) - 1) = sub THEN i
  ELSE IndexFrom(s, sub, i + 1)

IndexOf(s, sub) == IndexFrom(s, sub, 1)

includes(s, sub) == IndexOf(s, sub) # 0

\* String.prototype.split with a non-empty separator
RECURSIVE split(_, _)
split(s, sep) ==
  LET k == IndexOf(s, sep)
  IN IF k = 0 THEN <<s>>
     ELSE <<SubSeq(s, 1, k - 1)>> \o split(SubSeq(s, k + Len(sep), Len(s)), sep)

RECURSIVE trimStart(_)
trimStart(s) ==
  IF s # <<>> /\ s[1] \in WhiteSpace THEN trimStart(Tail(s)) ELSE s

RECURSIVE trimEnd(_)
trimEnd(s) ==
  IF s # <<>> /\ s[Len(s)] \in WhiteSpace THEN trimEnd(SubSeq(s, 1, Len(s) - 1)) ELSE s

\* String.prototype.trim
trim(s) == trimEnd(trimStart(s))

\* Array.prototype.join
RECURSIVE join(_, _)
join(parts, sep) ==
  IF parts = <<>> THEN <<>>
  ELSE IF Len(parts) = 1 THEN parts[1]
  ELSE parts[1] \o sep \o join(Tail(parts), sep)

\* The number of digit characters of s from position i on
RECURSIVE DigitRun(_, _)
DigitRun(s, i) ==
  IF i <= Len(s) /\ IsDigit(s[i]) THEN 1 + DigitRun(s, i + 1) ELSE 0

\* The value of a string of digits
RECURSIVE DigitsVal(_)
DigitsVal(s) ==
  IF s = <<>> THEN 0
  ELSE 10 * DigitsVal(SubSeq(s, 1, Len(s) - 1)) + DigitVal(s[Len(s)])

\* parseInt(text, 10): blanks, a sign, then digits; NaN without a digit.
\* The result counts whole units (hours or minutes), not ticks.
parseInt(text) ==
  LET s == trimStart(text)
      neg == s # <<>> /\ s[1] = "-"
      b == IF neg THEN 2 ELSE 1
      n == DigitRun(s, b)
      v == DigitsVal(SubSeq(s, b, b + n - 1))
  IN IF n = 0 THEN NaN ELSE IF neg THEN 0 - v ELSE v

\* parseFloat(text): blanks, a sign, digits, then "." and digits; NaN without
\* a digit.  The result is in ticks; digits beyond FracDigits are cut.
parseFloat(text) ==
  LET s == trimStart(text)
      neg == s # <<>> /\ s[1] = "-"
      b == IF neg THEN 2 ELSE 1
      n == DigitRun(s, b)
      dot == b + n <= Len(s) /\ s[b + n] = "."
      m == IF dot THEN DigitRun(s, b + n + 1) ELSE 0
      whole == DigitsVal(SubSeq(s, b, b + n - 1))
      frac == DigitsVal(SubSeq(s, b + n + 1, b + n + m))
      fticks == IF m <= FracDigits THEN frac * Pow10(FracDigits - m)
                ELSE frac \div Pow10(m - FracDigits)
      v == whole * TicksPerSec + fticks
  IN IF n + m = 0 THEN NaN ELSE IF neg THEN 0 - v ELSE v

\* --------------------------------------------------------- timestamp codec

\* JavaScript's a % b for b > 0: the remainder has the sign of a
JsRem(a, b) == IF a >= 0 THEN a % b ELSE 0 - ((0 - a) % b)

\* a * u + ..., where any NaN operand makes the sum NaN
NumSum(h, m, s) ==
  IF h = NaN \/ m = NaN \/ s = NaN THEN NaN
  ELSE h * 3600 * TicksPerSec + m * 60 * TicksPerSec + s

parseTimestamp(timestamp) ==
  LET parts == split(timestamp, <<":">>)
  IN IF Len(parts) = 3
       THEN NumSum(parseInt(parts[1]), parseInt(parts[2]), parseFloat(parts[3]))
     ELSE IF Len(parts) = 2
       THEN NumSum(0, parseInt(parts[1]), parseFloat(parts[2]))
     ELSE NumSum(0, 0, parseFloat(parts[1]))

\* A plausible slip: the minutes field is not reduced modulo the hour
formatTimestampMinutesNotReduced(totalSeconds) ==
  LET hours == totalSeconds \div (3600 * TicksPerSec)
      minutes == totalSeconds \div (60 * TicksPerSec)
      seconds == JsRem(totalSeconds, 60 * TicksPerSec) \div TicksPerSec
      ms == (2 * 1000 * JsRem(totalSeconds, TicksPerSec) + TicksPerSec) \div (2 * TicksPerSec)
  IN padStart(NumToStr(hours), 2, "0") \o <<":">> \o padStart(NumToStr(minutes), 2, "0")
       \o <<":">> \o padStart(NumToStr(seconds), 2, "0") \o <<".">>
       \o padStart(NumToStr(ms), 3, "0")

formatTimestamp(totalSeconds) ==
  IF totalSeconds = NaN
    THEN <<"N", "a", "N", ":", "N", "a", "N", ":", "N", "a", "N", ".", "N", "a", "N">>
  ELSE
  LET hours == totalSeconds \div (3600 * TicksPerSec)
      minutes == JsRem(totalSeconds, 3600 * TicksPerSec) \div (60 * TicksPerSec)
      seconds == JsRem(totalSeconds, 60 * TicksPerSec) \div TicksPerSec
      \* Math.round(x) is floor(x + 1/2)
      ms == (2 * 1000 * JsRem(totalSeconds, TicksPerSec) + TicksPerSec) \div (2 * TicksPerSec)
  IN padStart(NumToStr(hours), 2, "0") \o <<":">> \o padStart(NumToStr(minutes), 2, "0")
       \o <<":">> \o padStart(NumToStr(seconds), 2, "0") \o <<".">>
       \o padStart(NumToStr(ms), 3, "0")

\* ----------------------------------------------------- subtitle documents

\* A cue is [start, end, speaker, text]: start and end in ticks, speaker and
\* text strings.  A speaker that is null or undefined is one of two values
\* that are no string of characters.
NULL == <<"#null">>
UNDEFINED == <<"#undefined">>

\* A plausible slip: the speaker is compared with null only
TruthyNotNull(speaker) == speaker # NULL

\* JavaScript truthiness of a speaker: neither null, undefined nor ""
Truthy(speaker) == speaker # NULL /\ speaker # UNDEFINED /\ speaker # <<>>

Header == <<"W", "E", "B", "V", "T", "T", NL, NL>>

\* The number of white-space characters of s from position i on
RECURSIVE SpaceRun(_, _)
SpaceRun(s, i) ==
  IF i <= Len(s) /\ s[i] \in WhiteSpace THEN 1 + SpaceRun(s, i + 1) ELSE 0

\* text.match(/^<v\s+([^>]+)>(.*)/): <<>> without a match, else <<name, rest>>.
\* The name ends before the first ">"; \s+ gives back one blank when nothing
\* but blanks stands before that ">".
speakerMatch(text) ==
  LET g == IndexOf(text, <<">">>)
      w == SpaceRun(text, 3)
      k == IF 3 + w <= g - 1 THEN w ELSE w - 1
  IN IF Len(text) < 5 \/ text[1] # "<" \/ text[2] # "v" \/ w = 0 \/ g = 0 \/ k = 0
       THEN <<>>
     ELSE <<SubSeq(text, 3 + k, g - 1), SubSeq(text, g + 1, Len(text))>>

\* The header skip of parseVTT: the first line that holds "-->"
RECURSIVE SkipHeader(_, _)
SkipHeader(lines, i) ==
  IF i <= Len(lines) /\ ~includes(lines[i], Arrow) THEN SkipHeader(lines, i + 1) ELSE i

\* A plausible slip: the first tag of a block names the speaker
NextSpeakerKeepsFirst(speaker, sm) ==
  IF sm # <<>> /\ speaker = NULL THEN sm[1] ELSE speaker

\* 'if (speakerMatch) speaker = speakerMatch[1]'
NextSpeaker(speaker, sm) == IF sm # <<>> THEN sm[1] ELSE speaker

\* A plausible slip: the tag is taken off the first text line only
LineTextFirstOnly(textLines, t, sm) ==
  IF sm # <<>> /\ textLines = <<>> THEN sm[2] ELSE t

\* 'if (speakerMatch) text = speakerMatch[2]': what the trimmed line t gives
LineText(textLines, t, sm) == IF sm # <<>> THEN sm[2] ELSE t

\* A plausible slip: the text of a cue also ends at a line that holds "-->"
MoreTextUntilArrow(lines, i) ==
  i <= Len(lines) /\ trim(lines[i]) # <<>> /\ ~includes(lines[i], Arrow)

\* 'while (i < lines.length && lines[i].trim() !== "")'
MoreText(lines, i) == i <= Len(lines) /\ trim(lines[i]) # <<>>

\* The text loop of parseVTT, from line i on
RECURSIVE ReadText(_, _, _, _)
ReadText(lines, i, textLines, speaker) ==
  IF MoreText(lines, i)
    THEN LET t == trim(lines[i])
             sm == speakerMatch(t)
             text == LineText(textLines, t, sm)
             sp == NextSpeaker(speaker, sm)
         IN ReadText(lines, i + 1,
                     IF text # <<>> THEN Append(textLines, text) ELSE textLines, sp)
  ELSE [i |-> i, textLines |-> textLines, speaker |-> speaker]

\* A plausible slip: the text lines are joined by the newline they came with
CueTextKeepsNewlines(textLines) == join(textLines, <<NL>>)

\* textLines.join(' ')
CueText(textLines) == join(textLines, <<" ">>)

\* A plausible slip: a cue is pushed whatever its text lines
KeepCueAlways(textLines) == TRUE

\* 'if (textLines.length > 0)'
KeepCue(textLines) == Len(textLines) > 0

\* The main loop of parseVTT, from line i on
RECURSIVE ParseLoop(_, _, _)
ParseLoop(lines, i, cues) ==
  IF i > Len(lines) THEN cues
  ELSE LET line == trim(lines[i])
       IN IF includes(line, Arrow)
            THEN LET parts == split(line, Arrow)
                     r == ReadText(lines, i + 1, <<>>, NULL)
                     cue == [start |-> parseTimestamp(trim(parts[1])),
                             end |-> parseTimestamp(trim(parts[2])),
                             speaker |-> r.speaker,
                             text |-> CueText(r.textLines)]
                 IN ParseLoop(lines, r.i + 1,
                              IF KeepCue(r.textLines) THEN Append(cues, cue) ELSE cues)
          ELSE ParseLoop(lines, i + 1, cues)

parseVTT(vttContent) ==
  LET lines == split(vttContent, <<NL>>)
  IN ParseLoop(lines, SkipHeader(lines, 1), <<>>)

\* One cue block of serializeVTT
CueBlock(cue) ==
  formatTimestamp(cue.start) \o <<" ">> \o Arrow \o <<" ">> \o formatTimestamp(cue.end)
    \o <<NL>>
    \o (IF Truthy(cue.speaker)
          THEN <<"<", "v", " ">> \o cue.speaker \o <<">">> \o cue.text
        ELSE cue.text)
    \o <<NL, NL>>

RECURSIVE CueBlocks(_)
CueBlocks(cues) ==
  IF cues = <<>> THEN <<>> ELSE CueBlock(Head(cues)) \o CueBlocks(Tail(cues))

\* allCues.sort((a, b) => a.start - b.start): Array.prototype.sort is stable,
\* so a cue goes behind every cue that does not start later.
InsertByStart(sorted, cue) ==
  LET n == Cardinality({j \in 1..Len(sorted) : sorted[j].start <= cue.start})
  IN SubSeq(sorted, 1, n) \o <<cue>> \o SubSeq(sorted, n + 1, Len(sorted))

RECURSIVE SortFrom(_, _)
SortFrom(sorted, rest) ==
  IF rest = <<>> THEN sorted ELSE SortFrom(InsertByStart(sorted, Head(rest)), Tail(rest))

\* A plausible slip: the sort is left out
sortByStartOmitted(allCues) == allCues

sortByStart(allCues) == SortFrom(<<>>, allCues)

\* A plausible slip: the serializer puts the cues in start order itself
serializeVTTSorted(cues) == Header \o CueBlocks(sortByStart(cues))

serializeVTT(cues) == Header \o CueBlocks(cues)

\* a + b of two seconds values
NumAdd(a, b) == IF a = NaN \/ b = NaN THEN NaN ELSE a + b

\* The cues of one chunk, moved by the chunk's offset
OffsetCues(chunk) ==
  LET cs == parseVTT(chunk.vtt)
  IN [k \in 1..Len(cs) |->
        [start |-> NumAdd(cs[k].start, chunk.offset),
         end |-> NumAdd(cs[k].end, chunk.offset),
         speaker |-> cs[k].speaker,
         text |-> cs[k].text]]

RECURSIVE AllCues(_)
AllCues(chunks) ==
  IF chunks = <<>> THEN <<>> ELSE OffsetCues(Head(chunks)) \o AllCues(Tail(chunks))

mergeVTT(chunks) == serializeVTT(sortByStart(AllCues(chunks)))

\* ----------------------------------------------------------- chunk planner

\* A duration or a count is an exact fraction [n, d] in lowest terms, d >= 0.
\* d = 0 stands for what IEEE division by zero gives: [1, 0] is Infinity,
\* [-1, 0] is -Infinity, [0, 0] is NaN.  The sign of a zero is not kept.
RECURSIVE GCD(_, _)
GCD(a, b) == IF b = 0 THEN a ELSE GCD(b, a % b)

Sign(x) == IF x > 0 THEN 1 ELSE IF x < 0 THEN 0 - 1 ELSE 0

Rat(n, d) ==
  IF d = 0 THEN [n |-> Sign(n), d |-> 0]
  ELSE LET g == GCD(Abs(n), Abs(d))
       IN [n |-> Sign(d) * (n \div g), d |-> Abs(d) \div g]

Whole(k) == [n |-> k, d |-> 1]
Infinity == [n |-> 1, d |-> 0]
NotANumber == [n |-> 0, d |-> 0]
IsFinite(a) == a.d # 0

\* a / b: the sign of an infinite a follows the sign of b
RatDiv(a, b) ==
  IF a.d = 0 /\ b.d # 0 /\ b.n # 0 THEN Rat(a.n * Sign(b.n), 0)
  ELSE Rat(a.n * b.d, a.d * b.n)
RatMul(a, b) == Rat(a.n * b.n, a.d * b.d)
\* a + b: Infinity + Infinity is Infinity, Infinity - Infinity is NaN
RatAdd(a, b) ==
  IF a.d = 0 /\ b.d = 0 THEN (IF a = b THEN a ELSE NotANumber)
  ELSE Rat(a.n * b.d + b.n * a.d, a.d * b.d)
RatSub(a, b) == RatAdd(a, [n |-> 0 - b.n, d |-> b.d])

\* a < b and a <= b; a comparison with NaN is false
Rank(a) == IF IsFinite(a) THEN 0 ELSE a.n
RatLt(a, b) ==
  IF a = NotANumber \/ b = NotANumber THEN FALSE
  ELSE IF IsFinite(a) /\ IsFinite(b) THEN a.n * b.d < b.n * a.d
  ELSE Rank(a) < Rank(b)
RatLeq(a, b) == a # NotANumber /\ b # NotANumber /\ (a = b \/ RatLt(a, b))

\* A plausible slip: the quotient is rounded to the integer below
CeilRoundsDown(a) == IF IsFinite(a) THEN Whole(a.n \div a.d) ELSE a

\* Math.ceil
Ceil(a) == IF IsFinite(a) THEN Whole(0 - ((0 - a.n) \div a.d)) ELSE a
\* A plausible slip: Math.floor in place of Math.ceil
Floor(a) == IF IsFinite(a) THEN Whole(a.n \div a.d) ELSE a

calculateChunkCountFloor(totalDuration, maxChunkDuration) ==
  Floor(RatDiv(totalDuration, maxChunkDuration))

calculateChunkCount(totalDuration, maxChunkDuration) ==
  Ceil(RatDiv(totalDuration, maxChunkDuration))

\* A plausible slip: < in place of <= in the guard of splitAudio
FitsOneChunkStrict(totalDuration, maxChunkDuration) ==
  RatLt(totalDuration, maxChunkDuration)

\* The guard of splitAudio's early return
FitsOneChunk(totalDuration, maxChunkDuration) ==
  RatLeq(totalDuration, maxChunkDuration)

\* A plausible slip: the chunk number (from 1) in place of the index (from 0)
StartTimeFromOne(i, chunkDuration) == RatMul(Whole(i + 1), chunkDuration)

\* startTime of chunk i, i from 0
StartTime(i, chunkDuration) == RatMul(Whole(i), chunkDuration)

\* chunk_NN.ogg, NN the chunk number from 1
ChunkFile(i) ==
  <<"c", "h", "u", "n", "k", "_">> \o padStart(NumToStr(i + 1), 2, "0")
    \o <<".", "o", "g", "g">>

\* ------------------------------------------------------ transcribe command

\* The longest audio sent in one request, in seconds
MAX_AUDIO_DURATION == 1380
\* The fetch attempts transcribeOpenAIChunk makes for one chunk
MAX_RETRIES == 3

UpperCase ==
  <<"A", "B", "C", "D", "E", "F", "G", "H", "I", "J", "K", "L", "M",
    "N", "O", "P", "Q", "R", "S", "T", "U", "V", "W", "X", "Y", "Z">>
LowerCase ==
  <<"a", "b", "c", "d", "e", "f", "g", "h", "i", "j", "k", "l", "m",
    "n", "o", "p", "q", "r", "s", "t", "u", "v", "w", "x", "y", "z">>

\* String.prototype.toLowerCase
toLowerCase(s) ==
  [k \in 1..Len(s) |->
     IF \E u \in 1..26 : UpperCase[u] = s[k]
       THEN LowerCase[CHOOSE u \in 1..26 : UpperCase[u] = s[k]]
     ELSE s[k]]

\* The position of the last c in s, 0 when there is none
LastIndexOf(s, c) ==
  IF \E k \in 1..Len(s) : s[k] = c
    THEN CHOOSE k \in 1..Len(s) : s[k] = c /\ \A j \in (k + 1)..Len(s) : s[j] # c
  ELSE 0

\* path.basename(path) without a suffix: what follows the last "/"
LastPart(path) == SubSeq(path, LastIndexOf(path, "/") + 1, Len(path))

\* path.extname: from the last "." of the last part on, when that "." is not
\* the part's first character
extname(path) ==
  LET part == LastPart(path)
      k == LastIndexOf(part, ".")
  IN IF k <= 1 THEN <<>> ELSE SubSeq(part, k, Len(part))

\* path.basename(path, suffix)
basename(path, suffix) ==
  LET part == LastPart(path)
      n == Len(part) - Len(suffix)
  IN IF suffix # <<>> /\ n >= 1 /\ SubSeq(part, n + 1, Len(part)) = suffix
       THEN SubSeq(part, 1, n)
     ELSE part

AUDIO_EXTENSIONS ==
  {<<".", "w", "a", "v">>, <<".", "m", "p", "3">>, <<".", "m", "4", "a">>,
   <<".", "o", "g", "g">>, <<".", "f", "l", "a", "c">>, <<".", "a", "a", "c">>}

isAudioFile(filename) == toLowerCase(extname(filename)) \in AUDIO_EXTENSIONS

\* `${basename(inputFile, extname(inputFile))}-audio.wav`
ExtractedName(inputFile) ==
  basename(inputFile, extname(inputFile)) \o <<"-", "a", "u", "d", "i", "o", ".", "w", "a", "v">>

\* A chunk's offset or duration, an exact fraction of seconds, in ticks (what
\* lies below a tick is cut)
ToTicks(a) == (a.n * TicksPerSec) \div a.d

\* The cues of a response with segments (diarized_json)
SegmentCues(segments, offset) ==
  [k \in 1..Len(segments) |->
     [start |-> segments[k].start + offset,
      end |-> segments[k].end + offset,
      speaker |-> IF Truthy(segments[k].speaker) THEN segments[k].speaker
                  ELSE <<"S", "p", "e", "a", "k", "e", "r">>,
      text |-> trim(segments[k].text)]]

\* No segment is open yet (currentSegment = null)
NoSegment == [open |-> FALSE, start |-> 0, end |-> 0, text |-> <<>>]

\* The cue pushed for a word group
GroupCue(seg, offset) ==
  [start |-> seg.start + offset, end |-> seg.end + offset, speaker |-> NULL,
   text |-> trim(seg.text)]

\* A plausible slip: a word that starts exactly 5 seconds in opens a segment
StartsSegmentAtFive(currentSegment, word) ==
  ~currentSegment.open \/ word.start - currentSegment.start >= 5 * TicksPerSec

\* '!currentSegment || word.start - currentSegment.start > 5.0'
StartsSegment(currentSegment, word) ==
  ~currentSegment.open \/ word.start - currentSegment.start > 5 * TicksPerSec

\* The cues of a response with words (verbose_json), from word k on
RECURSIVE GroupWords(_, _, _, _, _)
GroupWords(words, k, currentSegment, out, offset) ==
  IF k > Len(words)
    THEN IF currentSegment.open THEN Append(out, GroupCue(currentSegment, offset)) ELSE out
  ELSE LET word == words[k]
       IN IF StartsSegment(currentSegment, word)
            THEN GroupWords(words, k + 1,
                            [open |-> TRUE, start |-> word.start, end |-> word.end,
                             text |-> word.word],
                            IF currentSegment.open
                              THEN Append(out, GroupCue(currentSegment, offset))
                            ELSE out,
                            offset)
          ELSE GroupWords(words, k + 1,
                          [currentSegment EXCEPT !.end = word.end,
                                                 !.text = @ \o <<" ">> \o word.word],
                          out, offset)

\* The cues one response adds to mergedCues
ResponseCues(transcript, chunk) ==
  LET offset == ToTicks(chunk.offset)
  IN IF Len(transcript.segments) > 0 THEN SegmentCues(transcript.segments, offset)
     ELSE IF Len(transcript.words) > 0
       THEN GroupWords(transcript.words, 1, NoSegment, <<>>, offset)
     ELSE IF trim(transcript.text) # <<>>
       THEN LET chunkDur == IF IsFinite(chunk.duration) /\ chunk.duration.n # 0
                              THEN ToTicks(chunk.duration)
                            ELSE 30 * TicksPerSec
            IN <<[start |-> offset, end |-> offset + chunkDur, speaker |-> NULL,
                  text |-> trim(transcript.text)]>>
     ELSE <<>>

\* mergedCues after the responses of the first n chunks
RECURSIVE MergedCues(_, _, _)
MergedCues(responses, chunkList, n) ==
  IF n = 0 THEN <<>>
  ELSE MergedCues(responses, chunkList, n - 1) \o ResponseCues(responses[n], chunkList[n])

\* The files the cleanup unlinks, in its order
RECURSIVE ChunkFilesToUnlink(_, _)
ChunkFilesToUnlink(chunkList, audio) ==
  IF chunkList = <<>> THEN <<>>
  ELSE (IF Head(chunkList).file # audio THEN <<Head(chunkList).file>> ELSE <<>>)
         \o ChunkFilesToUnlink(Tail(chunkList), audio)

FilesToUnlink(needs, audio, input, chunkList) ==
  (IF needs /\ audio # input THEN <<audio>> ELSE <<>>) \o ChunkFilesToUnlink(chunkList, audio)

\* ---------------------------------------------------- Gemini transcripts

\* The characters that "." of a regular expression does not match
LineTerminators == {NL, "\r"}

\* s[i..] is matched by (.+)$
DotPlus(s, i) == i <= Len(s) /\ \A k \in i..Len(s) : s[k] \notin LineTerminators

\* The head of timestampPattern, /^\[\s*(\d{1,2}):(\d{2})(?::(\d{2}))?\s*\]/:
\* <<>> without a match, else <<part1, part2, part3, q>> with q the position
\* of the "]" and part3 = UNDEFINED when the third group took no part
StampHead(line) ==
  LET Stamp(a, b, c, three, q) ==
        IF /\ Len(line) >= 1 /\ line[1] = "[" /\ b > a
           /\ b + 2 <= Len(line) /\ line[b] = ":"
           /\ IsDigit(line[b + 1]) /\ IsDigit(line[b + 2])
           /\ q <= Len(line) /\ line[q] = "]"
          THEN <<SubSeq(line, a, b - 1), SubSeq(line, b + 1, b + 2),
                 IF three THEN SubSeq(line, c + 1, c + 2) ELSE UNDEFINED, q>>
        ELSE <<>>
      Close(a, b, c, three, e) == Stamp(a, b, c, three, e + SpaceRun(line, e))
      Third(a, b, c, three) == Close(a, b, c, three, IF three THEN c + 3 ELSE c)
      Second(a, b, c) ==
        Third(a, b, c, /\ c + 2 <= Len(line) /\ line[c] = ":"
                       /\ IsDigit(line[c + 1]) /\ IsDigit(line[c + 2]))
      First(a, d) == Second(a, a + (IF d >= 2 THEN 2 ELSE d), a + (IF d >= 2 THEN 2 ELSE d) + 3)
      Lead(a) == First(a, DigitRun(line, a))
  IN Lead(2 + SpaceRun(line, 2))

\* The tail of timestampPattern after the "]" at q, /\s*(?:([^:]+):\s*)?(.+)$/:
\* the ways to match are <<w, g, v>>: w blanks, then the speaker group (g = 1;
\* it ends before the first ":" and v blanks follow the ":") or not (g = 0),
\* then the text to the end.  The pattern takes the first way in the order of
\* backtracking: most blanks, the group rather than none, most blanks again.
TailWays(line, q) ==
  LET Way(t, p, colon) ==
        IF t[2] = 0 THEN t[3] = 0 /\ DotPlus(line, p)
        ELSE /\ colon > p
             /\ t[3] <= SpaceRun(line, colon + 1)
             /\ DotPlus(line, colon + 1 + t[3])
      FromP(t, p) == Way(t, p, IndexFrom(line, <<":">>, p))
  IN {t \in (0..SpaceRun(line, q + 1)) \X {0, 1} \X (0..Len(line)) :
        FromP(t, q + 1 + t[1])}

TailRank(line, t) == (t[1] * 2 + t[2]) * (Len(line) + 1) + t[3]

\* line.match(timestampPattern): <<>> without a match, else
\* <<part1, part2, part3, speaker, lineText>>
timestampMatch(line) ==
  LET Groups(h, t, p, colon) ==
        IF t[2] = 0
          THEN <<h[1], h[2], h[3], UNDEFINED, SubSeq(line, p, Len(line))>>
        ELSE <<h[1], h[2], h[3], SubSeq(line, p, colon - 1),
               SubSeq(line, colon + 1 + t[3], Len(line))>>
      FromColon(h, t, p) == Groups(h, t, p, IndexFrom(line, <<":">>, p))
      Taken(h, t) == FromColon(h, t, h[4] + 1 + t[1])
      Ranked(h, ways) ==
        IF ways = {} THEN <<>>
        ELSE Taken(h, CHOOSE x \in ways :
                        \A y \in ways : TailRank(line, y) <= TailRank(line, x))
      Matched(h) == IF h = <<>> THEN <<>> ELSE Ranked(h, TailWays(line, h[4]))
  IN Matched(StampHead(line))

\* The number of leading (from = 1) or trailing characters c of s, at most 2
MarkRun(s, c, leading) ==
  LET at(k) == IF leading THEN k ELSE Len(s) + 1 - k
  IN IF Len(s) >= 2 /\ s[at(1)] = c /\ s[at(2)] = c THEN 2
     ELSE IF Len(s) >= 1 /\ s[at(1)] = c THEN 1 ELSE 0

\* cleanSpeaker.replace(/^\*{1,2}|^\_{1,2}|\*{1,2}$|\_{1,2}$/g, ''): one or two
\* marks go from the front, then one or two from the back of what is left
StripMarks(s) ==
  LET Marks(t, leading) ==
        IF MarkRun(t, "*", leading) > 0 THEN MarkRun(t, "*", leading)
        ELSE MarkRun(t, "_", leading)
      Back(rest, back) == SubSeq(rest, 1, Len(rest) - back)
      Rest(rest) == Back(rest, Marks(rest, FALSE))
      Front(lead) == Rest(SubSeq(s, lead + 1, Len(s)))
  IN Front(Marks(s, TRUE))

\* 'speaker?.trim() || null', then the marks removed and trimmed again
CleanSpeaker(speaker) ==
  LET Clean(trimmed) == IF trimmed = <<>> THEN NULL ELSE trim(StripMarks(trimmed))
  IN IF speaker = UNDEFINED THEN NULL ELSE Clean(trim(speaker))

\* The cue pushed for a line that matched
StampCue(m) ==
  LET Cue(startTime, cleanSpeaker) ==
        IF Truthy(cleanSpeaker) /\ Len(cleanSpeaker) > 30
          THEN [start |-> startTime * TicksPerSec, end |-> (startTime + 30) * TicksPerSec,
                speaker |-> NULL, text |-> trim(cleanSpeaker \o <<":", " ">> \o m[5])]
        ELSE [start |-> startTime * TicksPerSec, end |-> (startTime + 30) * TicksPerSec,
              speaker |-> IF Truthy(cleanSpeaker) THEN cleanSpeaker ELSE NULL,
              text |-> trim(m[5])]
      Times(p1, p2) ==
        Cue(IF m[3] # UNDEFINED THEN p1 * 3600 + p2 * 60 + parseInt(m[3])
            ELSE p1 * 60 + p2,
            CleanSpeaker(m[4]))
  IN Times(parseInt(m[1]), parseInt(m[2]))

\* The line loop of parseGeminiTranscript, from line k on
RECURSIVE GeminiLoop(_, _, _)
GeminiLoop(lines, k, out) ==
  LET n == Len(out)
      Pushed(cue) ==
        Append(IF n > 0 THEN [out EXCEPT ![n].end = cue.start] ELSE out, cue)
      Line(m, text) ==
        IF m # <<>> THEN Pushed(StampCue(m))
        ELSE IF n > 0 /\ text # <<>> THEN [out EXCEPT ![n].text = @ \o <<" ">> \o text]
        ELSE IF text # <<>> /\ n = 0
          THEN <<[start |-> 0, end |-> 30 * TicksPerSec, speaker |-> NULL, text |-> text]>>
        ELSE out
  IN IF k > Len(lines) THEN out
     ELSE GeminiLoop(lines, k + 1, Line(timestampMatch(lines[k]), trim(lines[k])))

\* text.split(/\s+/).length: one more than the runs of white space in text
SplitCount(text) ==
  1 + Cardinality({k \in 1..Len(text) :
                     /\ text[k] \in WhiteSpace \cup {NL}
                     /\ (k = 1 \/ text[k - 1] \notin WhiteSpace \cup {NL})})

\* Math.max(5, Math.ceil(wordCount / 2.5)), in ticks
estimatedDuration(wordCount) ==
  (IF (2 * wordCount + 4) \div 5 > 5 THEN (2 * wordCount + 4) \div 5 ELSE 5) * TicksPerSec

parseGeminiTranscript(text) ==
  LET lines == SelectSeq(split(text, <<NL>>), LAMBDA line : trim(line) # <<>>)
      out == GeminiLoop(lines, 1, <<>>)
      n == Len(out)
  IN IF n > 0
       THEN [out EXCEPT ![n].end = out[n].start + estimatedDuration(SplitCount(out[n].text))]
     ELSE out

\* ------------------------------------------------------------------- state

VARIABLES
  tsPc,           \* timestamp codec: "given", "formatted", "parsed"
  totalSeconds,   \* the seconds value given to formatTimestamp
  timestamp,      \* the text formatTimestamp returned
  parsedSeconds,  \* what parseTimestamp made of that text
  vttPc,          \* document engine: "given", "serialized", "parsed"
  cues,           \* the cue sequence given to serializeVTT
  vttContent,     \* the document serializeVTT returned
  parsedCues,     \* what parseVTT made of that document
  mergePc,        \* merge: "given", "merged"
  chunks,         \* the {vtt, offset} list given to mergeVTT
  mergedVtt,      \* the document mergeVTT returned
  planPc,         \* splitAudio: "given", "loop", "done"
  audioFile,      \* splitAudio's audioFile
  totalDuration,  \* splitAudio's and calculateChunkCount's totalDuration
  maxChunkDuration, \* their maxChunkDuration
  numChunks,      \* splitAudio's numChunks
  chunkDuration,  \* splitAudio's chunkDuration
  loopI,          \* splitAudio's loop counter i
  audioChunks,    \* the chunk list splitAudio builds and returns
  commands,       \* the ffmpeg commands splitAudio has run
  countPc,        \* calculateChunkCount: "given", "done"
  chunkCount,     \* what calculateChunkCount returned
  handPc,         \* parseVTT of a hand-written document: "given", "parsed"
  handVtt,        \* the document given to parseVTT
  handCues,       \* the cues parseVTT returned for it
  trPc,           \* transcribe: "start", "probe", "split", "chunk", "cleanup",
                  \* "return" (OpenAI), "generate", "parse", "unlink",
                  \* "serialize" (Gemini), "done", "failed"
  inputFile,      \* the command's input file
  needsExtraction, \* the input is no audio file
  chunkIdx,       \* the index i of the chunk being transcribed, from 0
  attempt,        \* transcribeOpenAIChunk's attempt, from 1
  lastError,      \* its lastError: a message, or NULL
  transcripts,    \* the responses collected so far
  mergedCues,     \* the cues built from them
  unlinked,       \* the files the cleanup has deleted
  thrown,         \* the message of the error the command ended with, or NULL
  outputVtt,      \* the document written to the output file
  provider,       \* the provider of the chosen model: "openai" or "google"
  transcriptText, \* the text Gemini answered with
  geminiCues,     \* the cues parseGeminiTranscript made of it
  procPc,         \* process command: the position in processAll
  argv,           \* the arguments after the command name
  envKeys,        \* the API key variables set in the environment
  stepArgs,       \* the arguments handed to the step that was started last
  started,        \* the steps started, in order
  finished,       \* how each started step ended: <<step, outcome>>, in order
  exitCode        \* the process's exit status in a sequence, empty while it runs

tsVars == <<tsPc, totalSeconds, timestamp, parsedSeconds>>
vttVars == <<vttPc, cues, vttContent, parsedCues>>
mergeVars == <<mergePc, chunks, mergedVtt>>
planVars == <<planPc, audioFile, totalDuration, maxChunkDuration, numChunks, chunkDuration,
              loopI, audioChunks, commands, countPc, chunkCount>>
handVars == <<handPc, handVtt, handCues>>
trVars == <<trPc, inputFile, needsExtraction, chunkIdx, attempt, lastError, transcripts,
            mergedCues, unlinked, thrown, outputVtt>>
gemVars == <<provider, transcriptText, geminiCues>>
procVars == <<procPc, argv, envKeys, stepArgs, started, finished, exitCode>>
vars == <<tsVars, vttVars, mergeVars, planVars, handVars, trVars, gemVars, procVars>>

TsIdle == tsPc = "idle" /\ totalSeconds = 0 /\ timestamp = <<>> /\ parsedSeconds = 0
VttIdle == vttPc = "idle" /\ cues = <<>> /\ vttContent = <<>> /\ parsedCues = <<>>
MergeIdle == mergePc = "idle" /\ chunks = <<>> /\ mergedVtt = <<>>
PlanIdle ==
  /\ planPc = "idle" /\ audioFile = <<>> /\ totalDuration = Whole(0)
  /\ maxChunkDuration = Whole(0) /\ numChunks = Whole(0) /\ chunkDuration = Whole(0)
  /\ loopI = 0 /\ audioChunks = <<>> /\ commands = <<>>
  /\ countPc = "idle" /\ chunkCount = Whole(0)
HandIdle == handPc = "idle" /\ handVtt = <<>> /\ handCues = <<>>
GemIdle == provider = "none" /\ transcriptText = <<>> /\ geminiCues = <<>>
ProcIdle ==
  /\ procPc = "idle" /\ argv = <<>> /\ envKeys = {} /\ stepArgs = <<>>
  /\ started = <<>> /\ finished = <<>> /\ exitCode = <<>>
TrIdle ==
  /\ trPc = "idle" /\ inputFile = <<>> /\ needsExtraction = FALSE /\ chunkIdx = 0
  /\ attempt = 0 /\ lastError = NULL /\ transcripts = <<>> /\ mergedCues = <<>>
  /\ unlinked = {} /\ thrown = NULL /\ outputVtt = <<>>

\* ---------------------------------------------- timestamp codec, round trip

\* Sampled seconds values: every hours field up to MaxHours, minutes and
\* seconds fields at both ends of their range, and fractions that are whole
\* milliseconds, that round down, that round up and that round up to 1000.
FracSamples ==
  {0, 1, TicksPerSec \div 4, TicksPerSec \div 2, 123 * TicksPerMs, 999 * TicksPerMs,
   999 * TicksPerMs + 4 * (TicksPerMs \div 10), TicksPerSec - 4 * (TicksPerMs \div 10),
   TicksPerSec - 1}

SecondsSamples ==
  {((h * 60 + m) * 60 + s) * TicksPerSec + f :
     h \in 0..MaxHours, m \in {0, 1, 59}, s \in {0, 5, 59}, f \in FracSamples}

InitTs ==
  /\ tsPc = "given"
  /\ totalSeconds \in SecondsSamples
  /\ timestamp = <<>>
  /\ parsedSeconds = 0
  /\ VttIdle /\ MergeIdle /\ PlanIdle /\ HandIdle /\ TrIdle /\ GemIdle /\ ProcIdle

FormatGiven ==
  /\ tsPc = "given"
  /\ timestamp' = formatTimestamp(totalSeconds)
  /\ tsPc' = "formatted"
  /\ UNCHANGED <<totalSeconds, parsedSeconds, vttVars, mergeVars, planVars, handVars, trVars, gemVars, procVars>>

ParseFormatted ==
  /\ tsPc = "formatted"
  /\ parsedSeconds' = parseTimestamp(timestamp)
  /\ tsPc' = "parsed"
  /\ UNCHANGED <<totalSeconds, timestamp, vttVars, mergeVars, planVars, handVars, trVars, gemVars, procVars>>

NextTs == FormatGiven \/ ParseFormatted

SpecTs == InitTs /\ [][NextTs]_vars

\* C1: for every seconds value x >= 0 that is a whole number of milliseconds,
\* parseTimestamp(formatTimestamp(x)) differs from x by less than 0.001 s.
TimestampRoundTrip ==
  (tsPc = "parsed" /\ totalSeconds >= 0 /\ totalSeconds % TicksPerMs = 0)
    => Abs(parsedSeconds - totalSeconds) < TicksPerMs

\* C1 witness: 7265.123 s (multi-hour, fractional) has made the round trip.
TimestampRoundTripWitness ==
  /\ tsPc = "parsed"
  /\ totalSeconds = 7265 * TicksPerSec + 123 * TicksPerMs
  /\ parsedSeconds = totalSeconds

\* The characters i..j of s are digits
AllDigits(s, i, j) == \A k \in i..j : k <= Len(s) /\ IsDigit(s[k])

\* C18: for every seconds value x with 0 <= x < 100 hours, formatTimestamp(x)
\* has the form HH:MM:SS.mmm: two digits of hours, minutes in 00..59, seconds in
\* 00..59 and exactly three digits of milliseconds, 000..999.
TimestampIsWellFormed ==
  (tsPc \in {"formatted", "parsed"} /\ totalSeconds >= 0
     /\ totalSeconds \div TicksPerSec < 100 * 3600) =>
    /\ Len(timestamp) = 12
    /\ AllDigits(timestamp, 1, 2) /\ timestamp[3] = ":"
    /\ AllDigits(timestamp, 4, 5) /\ timestamp[6] = ":"
    /\ AllDigits(timestamp, 7, 8) /\ timestamp[9] = "."
    /\ AllDigits(timestamp, 10, 12)
    /\ DigitsVal(SubSeq(timestamp, 4, 5)) <= 59
    /\ DigitsVal(SubSeq(timestamp, 7, 8)) <= 59

\* ------------------------------------------- document engine, round trip

\* All sequences over S of length 0..n
SeqsUpTo(S, n) == UNION {[1..k -> S] : k \in 0..n}

\* Sampled cues: with and without a speaker, one-word and two-word text, and
\* starts that are whole milliseconds or lie within half a millisecond below
\* a full second; and cues whose speaker is absent or the empty string.
StartSamples ==
  {0, 1500 * TicksPerMs, 60 * TicksPerSec - 4 * (TicksPerMs \div 10)}

CueSamples ==
  {[start |-> st, end |-> st + 1750 * TicksPerMs, speaker |-> sp, text |-> tx] :
     st \in StartSamples, sp \in {NULL, <<"A">>},
     tx \in {<<"H", "i">>, <<"a", " ", "b">>}}
    \cup {[start |-> 1500 * TicksPerMs, end |-> 2 * TicksPerSec, speaker |-> sp,
           text |-> <<"H", "i">>] : sp \in {UNDEFINED, <<>>}}

InitVtt ==
  /\ vttPc = "given"
  /\ cues \in SeqsUpTo(CueSamples, MaxCues)
  /\ vttContent = <<>>
  /\ parsedCues = <<>>
  /\ TsIdle /\ MergeIdle /\ PlanIdle /\ HandIdle /\ TrIdle /\ GemIdle /\ ProcIdle

Serialize ==
  /\ vttPc = "given"
  /\ vttContent' = serializeVTT(cues)
  /\ vttPc' = "serialized"
  /\ UNCHANGED <<cues, parsedCues, tsVars, mergeVars, planVars, handVars, trVars, gemVars, procVars>>

ParseSerialized ==
  /\ vttPc = "serialized"
  /\ parsedCues' = parseVTT(vttContent)
  /\ vttPc' = "parsed"
  /\ UNCHANGED <<cues, vttContent, tsVars, mergeVars, planVars, handVars, trVars, gemVars, procVars>>

NextVtt == Serialize \/ ParseSerialized

SpecVtt == InitVtt /\ [][NextVtt]_vars

\* Two seconds values less than tol ticks apart
Near(a, b, tol) == a # NaN /\ b # NaN /\ Abs(a - b) < tol

\* C2: for every cue sequence with single-line text, parseVTT(serializeVTT(cues))
\* has the length of cues and, position by position, the same start and end
\* within 0.01 s, the same speaker and the same text.
DocumentRoundTrip ==
  vttPc = "parsed" =>
    /\ Len(parsedCues) = Len(cues)
    /\ \A k \in 1..Len(cues) :
         /\ Near(parsedCues[k].start, cues[k].start, 10 * TicksPerMs)
         /\ Near(parsedCues[k].end, cues[k].end, 10 * TicksPerMs)
         /\ parsedCues[k].speaker = cues[k].speaker
         /\ parsedCues[k].text = cues[k].text

\* The starts of a cue sequence never decrease
StartsAscend(cs) ==
  \A k \in 1..(Len(cs) - 1) :
    cs[k].start # NaN /\ cs[k + 1].start # NaN /\ cs[k].start <= cs[k + 1].start

\* C11: every document serializeVTT produces lists its cues in non-decreasing
\* start order, for every sequence of cues it is given.
SerializedInStartOrder ==
  vttPc = "parsed" => StartsAscend(parsedCues)

\* The lines of the document serializeVTT returned
DocLines == split(vttContent, <<NL>>)

\* The speaker is present and non-empty
HasSpeaker(cue) == cue.speaker \notin {NULL, UNDEFINED, <<>>}

\* C12: serializeVTT(cues) is the line WEBVTT and a blank line, then one block
\* per cue in the order given, unsorted: the line 'formatTimestamp(start) -->
\* formatTimestamp(end)', the text line, which begins with '<v SPEAKER>' exactly
\* when the speaker is present and non-empty, and a blank line.
SerializedBlockByBlock ==
  vttPc \in {"serialized", "parsed"} =>
    /\ Len(DocLines) = 3 * Len(cues) + 3
    /\ DocLines[1] = <<"W", "E", "B", "V", "T", "T">>
    /\ DocLines[2] = <<>>
    /\ DocLines[Len(DocLines)] = <<>>
    /\ \A k \in 1..Len(cues) :
         /\ DocLines[3 * k] =
              formatTimestamp(cues[k].start) \o <<" ", "-", "-", ">", " ">>
                \o formatTimestamp(cues[k].end)
         /\ DocLines[3 * k + 1] =
              IF HasSpeaker(cues[k])
                THEN <<"<", "v", " ">> \o cues[k].speaker \o <<">">> \o cues[k].text
              ELSE cues[k].text
         /\ DocLines[3 * k + 2] = <<>>

\* C12 witness: two cues that are not in start order, the first with a speaker
\* and the second without, have been serialized.
SerializedBlockByBlockWitness ==
  /\ vttPc = "serialized"
  /\ Len(cues) = 2
  /\ cues[1].start > cues[2].start
  /\ cues[1].speaker = <<"A">> /\ cues[2].speaker = NULL

SerializeInvertsParse ==
  vttPc = "parsed" => serializeVTT(parsedCues) = vttContent

\* ------------------------------------------------------------------- merge

\* Lines joined into a document
Doc(lines) == join(lines, <<NL>>)

\* Sampled chunk transcripts: two cues in one second; one cue at 10 s; one cue
\* at 10 s in the MM:SS.mmm form with text on two lines; two cues out of order.
DocSamples ==
  {Doc(<< <<"W", "E", "B", "V", "T", "T">>, <<>>,
          formatTimestamp(200 * TicksPerMs) \o <<" ">> \o Arrow \o <<" ">>
            \o formatTimestamp(400 * TicksPerMs),
          <<"<", "v", " ", "A", ">", "H", "i">>, <<>>,
          formatTimestamp(500 * TicksPerMs) \o <<" ">> \o Arrow \o <<" ">>
            \o formatTimestamp(2 * TicksPerSec),
          <<"y", "o">>, <<>> >>),
   Doc(<< <<"W", "E", "B", "V", "T", "T">>, <<>>,
          formatTimestamp(10 * TicksPerSec) \o <<" ">> \o Arrow \o <<" ">>
            \o formatTimestamp(12 * TicksPerSec),
          <<"<", "v", " ", "B", ">", "L", "a", "t", "e", "r">>, <<>> >>),
   Doc(<< <<"W", "E", "B", "V", "T", "T">>, <<>>,
          <<"0", "0", ":", "1", "0", ".", "0", "0", "0">> \o <<" ">> \o Arrow \o <<" ">>
            \o <<"0", "0", ":", "1", "1", ".", "5", "0", "0">>,
          <<"a">>, <<"b">>, <<>> >>),
   Doc(<< <<"W", "E", "B", "V", "T", "T">>, <<>>,
          formatTimestamp(5 * TicksPerSec) \o <<" ">> \o Arrow \o <<" ">>
            \o formatTimestamp(6 * TicksPerSec),
          <<"<", "v", " ", "A", ">", "n", "o", "w">>, <<>>,
          formatTimestamp(1 * TicksPerSec) \o <<" ">> \o Arrow \o <<" ">>
            \o formatTimestamp(3 * TicksPerSec),
          <<"t", "h", "e", "n">>, <<>> >>)}

\* Sampled offsets: none, and one that is no whole number of milliseconds
\* (an offset is i * totalDuration / numChunks)
OffsetSamples == {0, 4996 * (TicksPerMs \div 10)}

ChunkSamples == {[vtt |-> d, offset |-> o] : d \in DocSamples, o \in OffsetSamples}

InitMerge ==
  /\ mergePc = "given"
  /\ chunks \in SeqsUpTo(ChunkSamples, MaxChunks)
  /\ mergedVtt = <<>>
  /\ TsIdle /\ VttIdle /\ PlanIdle /\ HandIdle /\ TrIdle /\ GemIdle /\ ProcIdle

Merge ==
  /\ mergePc = "given"
  /\ mergedVtt' = mergeVTT(chunks)
  /\ mergePc' = "merged"
  /\ UNCHANGED <<chunks, tsVars, vttVars, planVars, handVars, trVars, gemVars, procVars>>

NextMerge == Merge

SpecMerge == InitMerge /\ [][NextMerge]_vars

\* C3: the cues of the document mergeVTT returns appear in non-decreasing
\* start order.
MergedInStartOrder ==
  mergePc = "merged" => StartsAscend(parseVTT(mergedVtt))

\* The permutations of 1..n
Perms(n) == {p \in [1..n -> 1..n] : \A a, b \in 1..n : a # b => p[a] # p[b]}

\* Cue out is cue c as a document holds it: times to the millisecond
SameCue(out, c) ==
  /\ Near(out.start, c.start, TicksPerMs)
  /\ Near(out.end, c.end, TicksPerMs)
  /\ out.speaker = c.speaker
  /\ out.text = c.text

\* C4: mergeVTT outputs exactly one cue for each cue parseVTT finds in each
\* chunk, with start and end increased by the chunk's offset and with speaker
\* and text unchanged; no cue is added, none is dropped.
MergeKeepsEveryCue ==
  mergePc = "merged" =>
    LET out == parseVTT(mergedVtt)
        src == AllCues(chunks)
    IN /\ Len(out) = Len(src)
       /\ \E p \in Perms(Len(src)) : \A k \in 1..Len(src) : SameCue(out[k], src[p[k]])

\* The list xs in the order p
Permuted(xs, p) == [k \in 1..Len(xs) |-> xs[p[k]]]

\* C5 as claimed: for every permutation of the same list of {vtt, offset}
\* inputs, mergeVTT returns the identical document.
MergeIgnoresInputOrder ==
  mergePc = "merged" =>
    \A p \in Perms(Len(chunks)) : mergeVTT(Permuted(chunks, p)) = mergedVtt

\* No two cues of the inputs start at the same time once offset
DistinctStarts(cs) ==
  \A a, b \in 1..Len(cs) :
    a # b => (cs[a].start # NaN /\ cs[b].start # NaN /\ cs[a].start # cs[b].start)

\* C5 amended: when no two cues of the inputs have the same offset start,
\* mergeVTT returns the identical document for every permutation of the same
\* list of inputs.
MergeIgnoresInputOrderOfDistinctStarts ==
  (mergePc = "merged" /\ DistinctStarts(AllCues(chunks))) =>
    \A p \in Perms(Len(chunks)) : mergeVTT(Permuted(chunks, p)) = mergedVtt

\* C5 witness: two different chunks whose cues start at different times and
\* do not arrive in start order have been merged.
MergeIgnoresInputOrderWitness ==
  /\ mergePc = "merged"
  /\ Len(chunks) = 2
  /\ chunks[1] # chunks[2]
  /\ DistinctStarts(AllCues(chunks))
  /\ ~StartsAscend(AllCues(chunks))

\* ----------------------------------------------------------- chunk planning

\* Sampled plans: totalDuration and maxChunkDuration step by halves from -1,
\* so they are negative, zero, fractional and whole, below, at and above each
\* other; the plans the tests and the specification name; plans under the
\* limit the transcribe command passes; and the durations
\* that are no finite number (getAudioDuration returns what parseFloat makes of
\* ffprobe's output).
LimitSamples == {Rat(m, 2) : m \in (0 - 2)..(2 * MaxLimit)}

PlanSamples ==
  {<<Rat(t, 2), m>> : t \in (0 - 2)..(2 * MaxTotal), m \in LimitSamples}
    \cup {<<Whole(1200), Whole(1200)>>, <<Whole(1201), Whole(1200)>>,
          <<Whole(0), Whole(1000)>>, <<Whole(3600), Whole(1200)>>}
    \cup {<<t, Whole(MAX_AUDIO_DURATION)>> :
            t \in {Whole(MAX_AUDIO_DURATION), Whole(MAX_AUDIO_DURATION + 1), Whole(3000)}}
    \cup {<<t, m>> : t \in {Infinity, NotANumber, RatSub(Whole(0), Infinity)},
                     m \in LimitSamples}

\* No sampled plan with a finite count has more than 2 * MaxTotal chunks; the
\* loop of a plan whose count is Infinity is followed for one iteration more.
MaxIter == 2 * MaxTotal + 1

InitPlan ==
  /\ planPc = "given"
  /\ countPc = "given"
  /\ audioFile = <<"a", ".", "w", "a", "v">>
  /\ \E plan \in PlanSamples : totalDuration = plan[1] /\ maxChunkDuration = plan[2]
  /\ numChunks = Whole(0)
  /\ chunkDuration = Whole(0)
  /\ loopI = 0
  /\ audioChunks = <<>>
  /\ commands = <<>>
  /\ chunkCount = Whole(0)
  /\ TsIdle /\ VttIdle /\ MergeIdle /\ HandIdle /\ TrIdle /\ GemIdle /\ ProcIdle

\* splitAudio, lines 192-198: the whole file is the one chunk
SplitAudioWhole ==
  /\ planPc = "given"
  /\ FitsOneChunk(totalDuration, maxChunkDuration)
  /\ audioChunks' = <<[file |-> audioFile, offset |-> Whole(0), duration |-> totalDuration]>>
  /\ planPc' = "done"
  /\ UNCHANGED <<audioFile, totalDuration, maxChunkDuration, numChunks, chunkDuration,
                 loopI, commands, countPc, chunkCount, tsVars, vttVars, mergeVars, handVars, trVars, gemVars, procVars>>

\* splitAudio, lines 200-204: the count, the chunk length, i = 0
SplitAudioBegin ==
  /\ planPc = "given"
  /\ ~FitsOneChunk(totalDuration, maxChunkDuration)
  /\ numChunks' = Ceil(RatDiv(totalDuration, maxChunkDuration))
  /\ chunkDuration' = RatDiv(totalDuration, numChunks')
  /\ loopI' = 0
  /\ planPc' = "loop"
  /\ UNCHANGED <<audioFile, totalDuration, maxChunkDuration, audioChunks, commands,
                 countPc, chunkCount, tsVars, vttVars, mergeVars, handVars, trVars, gemVars, procVars>>

\* splitAudio, lines 204-223: one iteration cuts one chunk with ffmpeg
SplitAudioCut ==
  /\ planPc = "loop"
  /\ RatLt(Whole(loopI), numChunks)
  /\ loopI < MaxIter
  /\ LET startTime == StartTime(loopI, chunkDuration)
         inner == RatLt(Whole(loopI), RatSub(numChunks, Whole(1)))
         chunkFile == ChunkFile(loopI)
         actualDuration == IF inner THEN chunkDuration ELSE RatSub(totalDuration, startTime)
     IN /\ commands' = Append(commands,
                              [input |-> audioFile, ss |-> startTime, limited |-> inner,
                               t |-> IF inner THEN chunkDuration ELSE Whole(0),
                               output |-> chunkFile])
        /\ audioChunks' = Append(audioChunks,
                                 [file |-> chunkFile, offset |-> startTime,
                                  duration |-> actualDuration])
  /\ loopI' = loopI + 1
  /\ UNCHANGED <<planPc, audioFile, totalDuration, maxChunkDuration, numChunks,
                 chunkDuration, countPc, chunkCount, tsVars, vttVars, mergeVars, handVars, trVars, gemVars, procVars>>

\* splitAudio, lines 204 and 225: the loop ends and the list is returned
SplitAudioReturn ==
  /\ planPc = "loop"
  /\ ~RatLt(Whole(loopI), numChunks)
  /\ planPc' = "done"
  /\ UNCHANGED <<audioFile, totalDuration, maxChunkDuration, numChunks, chunkDuration,
                 loopI, audioChunks, commands, countPc, chunkCount, tsVars, vttVars,
                 mergeVars, handVars, trVars, gemVars, procVars>>

CountChunks ==
  /\ countPc = "given"
  /\ chunkCount' = calculateChunkCount(totalDuration, maxChunkDuration)
  /\ countPc' = "done"
  /\ UNCHANGED <<planPc, audioFile, totalDuration, maxChunkDuration, numChunks,
                 chunkDuration, loopI, audioChunks, commands, tsVars, vttVars, mergeVars, handVars, trVars, gemVars, procVars>>

NextPlan ==
  SplitAudioWhole \/ SplitAudioBegin \/ SplitAudioCut \/ SplitAudioReturn \/ CountChunks

SpecPlan == InitPlan /\ [][NextPlan]_vars

Positive(a) == RatLt(Whole(0), a)

RECURSIVE SumOfDurations(_)
SumOfDurations(cs) ==
  IF cs = <<>> THEN Whole(0) ELSE RatAdd(Head(cs).duration, SumOfDurations(Tail(cs)))

\* C6: for totalDuration > 0 and maxChunkDuration > 0 the chunks tile
\* [0, totalDuration): the first offset is 0, each next offset is the previous
\* offset plus the previous duration, every chunk but the last has duration
\* totalDuration / chunkCount, the last has totalDuration - lastOffset, and the
\* durations sum to totalDuration.
ChunksTileTheDuration ==
  (planPc = "done" /\ Positive(totalDuration) /\ Positive(maxChunkDuration)) =>
    LET n == Len(audioChunks)
    IN /\ n >= 1
       /\ audioChunks[1].offset = Whole(0)
       /\ \A k \in 1..(n - 1) :
            /\ audioChunks[k + 1].offset
                 = RatAdd(audioChunks[k].offset, audioChunks[k].duration)
            /\ audioChunks[k].duration = RatDiv(totalDuration, Whole(n))
       /\ audioChunks[n].duration = RatSub(totalDuration, audioChunks[n].offset)
       /\ SumOfDurations(audioChunks) = totalDuration

\* C6 witness: 5 s under a limit of 2 s came out as three chunks of 5/3 s.
ChunksTileTheDurationWitness ==
  /\ planPc = "done"
  /\ totalDuration = Whole(5) /\ maxChunkDuration = Whole(2)
  /\ Len(audioChunks) = 3
  /\ audioChunks[3].offset = Rat(10, 3)

\* C7: planning totalDuration = 0 yields no chunk, in agreement with
\* calculateChunkCount(0, max) = 0, for every max > 0.
ZeroDurationYieldsNoChunk ==
  (planPc = "done" /\ totalDuration = Whole(0) /\ Positive(maxChunkDuration)) =>
    /\ audioChunks = <<>>
    /\ Whole(Len(audioChunks)) = calculateChunkCount(totalDuration, maxChunkDuration)

\* C8: whenever totalDuration <= maxChunkDuration, splitAudio returns exactly
\* one chunk, offset 0, duration totalDuration, the original audio file, and
\* runs no slicing command.
ShortAudioIsOneChunk ==
  (planPc = "done" /\ RatLeq(totalDuration, maxChunkDuration)) =>
    /\ audioChunks = <<[file |-> audioFile, offset |-> Whole(0), duration |-> totalDuration]>>
    /\ commands = <<>>

\* C8 witness: audio exactly as long as the limit has been planned.
ShortAudioIsOneChunkWitness ==
  /\ planPc = "done"
  /\ totalDuration = Whole(1200) /\ maxChunkDuration = Whole(1200)
  /\ Len(audioChunks) = 1

\* k is the least integer with k * maxChunkDuration >= totalDuration
LeastCount(k) ==
  /\ RatLeq(totalDuration, RatMul(Whole(k), maxChunkDuration))
  /\ RatLt(RatMul(Whole(k - 1), maxChunkDuration), totalDuration)

\* C9: for a duration totalDuration >= 0 (a finite number of seconds) and
\* maxChunkDuration > 0, calculateChunkCount returns the least integer n with
\* n * maxChunkDuration >= totalDuration, and for totalDuration >
\* maxChunkDuration splitAudio returns that many chunks.
ChunkCountIsLeast ==
  /\ (countPc = "done" /\ IsFinite(totalDuration)
        /\ RatLeq(Whole(0), totalDuration) /\ Positive(maxChunkDuration)) =>
       (chunkCount.d = 1 /\ LeastCount(chunkCount.n))
  /\ (planPc = "done" /\ IsFinite(totalDuration) /\ Positive(maxChunkDuration)
        /\ RatLt(maxChunkDuration, totalDuration)) =>
       LeastCount(Len(audioChunks))

\* C9 witness: 1201 s under a limit of 1200 s counted as 2 and split in 2.
ChunkCountIsLeastWitness ==
  /\ countPc = "done" /\ planPc = "done"
  /\ totalDuration = Whole(1201) /\ maxChunkDuration = Whole(1200)
  /\ chunkCount = Whole(2)
  /\ Len(audioChunks) = 2

\* C10: chunk planning terminates with a finite chunk list for every numeric
\* input, zero and negative durations and limits included.  The loop of
\* splitAudio counts i up from 0 while i < numChunks, so it ends exactly when
\* numChunks is not Infinity: whenever planning is in its loop, its bound is
\* not Infinity.
PlanningTerminates == planPc = "loop" => numChunks # Infinity

\* C28: for every totalDuration > 0 and maxChunkDuration > 0, every chunk
\* splitAudio returns has a duration above 0 and not above maxChunkDuration;
\* under the limit the transcribe command passes, no chunk it sends for
\* transcription is longer than MAX_AUDIO_DURATION.
EveryChunkFitsTheLimit ==
  /\ (planPc = "done" /\ Positive(totalDuration) /\ Positive(maxChunkDuration)) =>
       \A k \in 1..Len(audioChunks) :
         /\ Positive(audioChunks[k].duration)
         /\ RatLeq(audioChunks[k].duration, maxChunkDuration)
  /\ (trPc = "chunk" /\ chunkIdx < Len(audioChunks)) =>
       /\ Positive(audioChunks[chunkIdx + 1].duration)
       /\ RatLeq(audioChunks[chunkIdx + 1].duration, Whole(MAX_AUDIO_DURATION))

\* C28 witness: one second more than the limit of the transcribe command came
\* out as two chunks of half of it each.
EveryChunkFitsTheLimitWitness ==
  /\ planPc = "done"
  /\ maxChunkDuration = Whole(MAX_AUDIO_DURATION)
  /\ totalDuration = Whole(MAX_AUDIO_DURATION + 1)
  /\ Len(audioChunks) = 2
  /\ audioChunks[1].duration = Rat(MAX_AUDIO_DURATION + 1, 2)
  /\ audioChunks[2].duration = Rat(MAX_AUDIO_DURATION + 1, 2)

\* ------------------------------------- parseVTT of hand-written documents

\* Sampled lines: the header, an empty line, a line of white space (the rest
\* of a CRLF blank line), a timestamp line in the MM:SS.mmm form, a tagged text
\* line, a line that is a tag and nothing else, plain text with blanks around
\* it, and a timestamp line of bare seconds.
LineSamples ==
  {<<"W", "E", "B", "V", "T", "T">>,
   <<>>,
   <<" ", "\r">>,
   <<"0", "0", ":", "0", "1", ".", "0", "0", "0", " ", "-", "-", ">", " ",
     "0", "0", ":", "0", "2", ".", "5", "0", "0">>,
   <<"<", "v", " ", "A", ">", "H", "i">>,
   <<"<", "v", " ", "B", ">">>,
   <<" ", "y", "o", " ">>,
   <<"5", "-", "-", ">", "6">>}

\* A first block whose text is a second timestamp line, closed by a blank line
LeadBlock ==
  << <<"5", "-", "-", ">", "6">>,
     <<"0", "0", ":", "0", "1", ".", "0", "0", "0", " ", "-", "-", ">", " ",
       "0", "0", ":", "0", "2", ".", "5", "0", "0">>,
     <<>> >>

\* Sampled documents: every sequence of up to MaxLines sampled lines, and the
\* lead block followed by up to MaxTail sampled lines
HandSamples ==
  {Doc(lines) : lines \in SeqsUpTo(LineSamples, MaxLines)}
    \cup {Doc(LeadBlock \o lines) : lines \in SeqsUpTo(LineSamples, MaxTail)}

InitHand ==
  /\ handPc = "given"
  /\ handVtt \in HandSamples
  /\ handCues = <<>>
  /\ TsIdle /\ VttIdle /\ MergeIdle /\ PlanIdle /\ TrIdle /\ GemIdle /\ ProcIdle

ParseGiven ==
  /\ handPc = "given"
  /\ handCues' = parseVTT(handVtt)
  /\ handPc' = "parsed"
  /\ UNCHANGED <<handVtt, tsVars, vttVars, mergeVars, planVars, trVars, gemVars, procVars>>

NextHand == ParseGiven

SpecParse == InitHand /\ [][NextHand]_vars

\* The lines of the hand-written document
HandLines == split(handVtt, <<NL>>)

\* Line l holds the delimiter
HasArrow(l) == \E k \in 1..(Len(l) - 2) : SubSeq(l, k, k + 2) = <<"-", "-", ">">>

\* Line l is empty or white space
Blank(l) == \A k \in 1..Len(l) : l[k] \in WhiteSpace

\* Line k is the timestamp line of a block: it holds the delimiter and is not
\* among the non-blank lines that follow the timestamp line of a block before
RECURSIVE IsHead(_, _)
IsHead(ls, k) ==
  /\ HasArrow(ls[k])
  /\ ~\E h \in 1..(k - 1) : IsHead(ls, h) /\ \A j \in (h + 1)..k : ~Blank(ls[j])

\* The text lines of the block of timestamp line h: the non-blank lines that
\* follow it, up to the first blank line or the end
BlockLines(ls, h) ==
  {j \in (h + 1)..Len(ls) : \A i \in (h + 1)..j : ~Blank(ls[i])}

\* Line l, trimmed, begins with a speaker tag
Tagged(l) == speakerMatch(trim(l)) # <<>>

\* What line l gives to the text of its cue
Content(l) == IF Tagged(l) THEN speakerMatch(trim(l))[2] ELSE trim(l)

\* The timestamp lines whose block has text, and the k-th of them
Kept(ls) ==
  {h \in 1..Len(ls) : IsHead(ls, h) /\ \E j \in BlockLines(ls, h) : Content(ls[j]) # <<>>}
KeptAt(ls, k) ==
  CHOOSE h \in Kept(ls) : Cardinality({g \in Kept(ls) : g <= h}) = k

\* What the lines js of ls give to the text, in source order; a line that
\* gives nothing (a lone tag) is left out
RECURSIVE Contents(_, _)
Contents(ls, js) ==
  IF js = {} THEN <<>>
  ELSE LET j == CHOOSE m \in js : \A n \in js : m <= n
       IN (IF Content(ls[j]) # <<>> THEN <<Content(ls[j])>> ELSE <<>>)
            \o Contents(ls, js \ {j})

\* The strings of a sequence with one space between them
RECURSIVE SpacedOut(_)
SpacedOut(parts) ==
  IF parts = <<>> THEN <<>>
  ELSE IF Len(parts) = 1 THEN parts[1]
  ELSE parts[1] \o <<" ">> \o SpacedOut(Tail(parts))

\* C14: a block whose text spans several consecutive non-blank lines yields one
\* cue whose text is those lines, each trimmed (and without its speaker tag), in
\* source order, with exactly one space between them; and no cue text holds a
\* newline.
MultiLineTextIsJoined ==
  handPc = "parsed" =>
    /\ Len(handCues) = Cardinality(Kept(HandLines))
    /\ \A k \in 1..Len(handCues) :
         /\ handCues[k].text =
              SpacedOut(Contents(HandLines, BlockLines(HandLines, KeptAt(HandLines, k))))
         /\ \A c \in 1..Len(handCues[k].text) : handCues[k].text[c] # NL

\* C14 witness: a block of three text lines, the first tagged and the others
\* plain with blanks around them, came out as one cue.
MultiLineTextIsJoinedWitness ==
  /\ handPc = "parsed"
  /\ Len(HandLines) = 4
  /\ HasArrow(HandLines[1])
  /\ HandLines[2] = <<"<", "v", " ", "A", ">", "H", "i">>
  /\ HandLines[3] = <<" ", "y", "o", " ">> /\ HandLines[4] = <<" ", "y", "o", " ">>
  /\ Len(handCues) = 1
  /\ handCues[1].text = <<"H", "i", " ", "y", "o", " ", "y", "o">>

\* C15: for every text without a line that holds the delimiter, the header
\* alone and the empty string among them, parseVTT returns no cue.
NoArrowNoCue ==
  (handPc = "parsed" /\ \A k \in 1..Len(HandLines) : ~HasArrow(HandLines[k])) =>
    handCues = <<>>

\* C15 witness: a header followed by a text line, with no timestamp line, has
\* been parsed to nothing.
NoArrowNoCueWitness ==
  /\ handPc = "parsed"
  /\ handCues = <<>>
  /\ handVtt = Doc(<< <<"W", "E", "B", "V", "T", "T">>, <<>>,
                      <<"<", "v", " ", "A", ">", "H", "i">> >>)

\* C16: every cue parseVTT returns has text; a block whose text lines are all
\* empty once their tags are stripped (a lone tag, or no text line at all)
\* yields no cue, and the blocks after it yield theirs.
EveryCueHasText ==
  handPc = "parsed" =>
    /\ \A k \in 1..Len(handCues) : handCues[k].text # <<>>
    /\ Len(handCues) = Cardinality(Kept(HandLines))
    /\ \A k \in 1..Len(handCues) :
         \E j \in BlockLines(HandLines, KeptAt(HandLines, k)) :
           Content(HandLines[j]) # <<>>

\* C16 witness: a timestamp line with a blank line right after it, then a full
\* block: one cue.
EveryCueHasTextWitness ==
  /\ handPc = "parsed"
  /\ Len(HandLines) = 4
  /\ HasArrow(HandLines[1]) /\ HandLines[2] = <<>> /\ HasArrow(HandLines[3])
  /\ HandLines[4] = <<"<", "v", " ", "A", ">", "H", "i">>
  /\ Len(handCues) = 1
  /\ handCues[1].text = <<"H", "i">>

\* The name in the tag of line l
TagName(l) == speakerMatch(trim(l))[1]

\* C20: when several text lines of a block begin with a tag, the cue carries
\* the name of the last of them (and null when none does); a cue has one
\* speaker.
LastTagNamesTheSpeaker ==
  handPc = "parsed" =>
    /\ Len(handCues) = Cardinality(Kept(HandLines))
    /\ \A k \in 1..Len(handCues) :
         LET js == BlockLines(HandLines, KeptAt(HandLines, k))
             tagged == {j \in js : Tagged(HandLines[j])}
         IN IF tagged = {} THEN handCues[k].speaker = NULL
            ELSE \E j \in tagged :
                   /\ \A i \in tagged : i <= j
                   /\ handCues[k].speaker = TagName(HandLines[j])

\* C20 witness: a block whose first text line is tagged A and whose second is
\* tagged B came out with speaker B.
LastTagNamesTheSpeakerWitness ==
  /\ handPc = "parsed"
  /\ Len(HandLines) = 3
  /\ HasArrow(HandLines[1])
  /\ HandLines[2] = <<"<", "v", " ", "A", ">", "H", "i">>
  /\ HandLines[3] = <<"<", "v", " ", "B", ">">>
  /\ Len(handCues) = 1
  /\ handCues[1].speaker = <<"B">>

\* The first text line of the block of timestamp line h
FirstOf(js) == CHOOSE m \in js : \A n \in js : m <= n

\* What line j gives to the text when only the first text line of its block
\* loses its tag
ContentFirstOnly(ls, js, j) == IF j = FirstOf(js) THEN Content(ls[j]) ELSE trim(ls[j])

RECURSIVE ContentsFirstOnly(_, _, _)
ContentsFirstOnly(ls, js, rest) ==
  IF rest = {} THEN <<>>
  ELSE LET j == FirstOf(rest)
       IN (IF ContentFirstOnly(ls, js, j) # <<>>
             THEN <<ContentFirstOnly(ls, js, j)>> ELSE <<>>)
            \o ContentsFirstOnly(ls, js, rest \ {j})

\* The blocks that yield a cue and hold a tagged text line after their first
LaterTagged(ls, h) ==
  \E j \in BlockLines(ls, h) : j # FirstOf(BlockLines(ls, h)) /\ Tagged(ls[j])

\* C21, as claimed: the tag is stripped from the first text line of a block
\* only; a tag at the start of a later text line stays in the joined text.
OnlyFirstLineTagIsStripped ==
  handPc = "parsed" =>
    \A k \in 1..Len(handCues) :
      LET js == BlockLines(HandLines, KeptAt(HandLines, k))
      IN handCues[k].text = SpacedOut(ContentsFirstOnly(HandLines, js, js))

\* C21, amended: the tag is stripped from every text line that begins with
\* one, so a tag at the start of a later text line is not in the joined text.
EveryLineTagIsStripped ==
  handPc = "parsed" =>
    \A k \in 1..Len(handCues) :
      LET h == KeptAt(HandLines, k)
      IN LaterTagged(HandLines, h) =>
           /\ handCues[k].text = SpacedOut(Contents(HandLines, BlockLines(HandLines, h)))
           /\ handCues[k].text # SpacedOut(ContentsFirstOnly(HandLines,
                                   BlockLines(HandLines, h), BlockLines(HandLines, h)))

\* C21 witness: a block of two text lines, both tagged, came out as the two
\* texts without either tag.
EveryLineTagIsStrippedWitness ==
  /\ handPc = "parsed"
  /\ Len(HandLines) = 3
  /\ HasArrow(HandLines[1])
  /\ HandLines[2] = <<"<", "v", " ", "A", ">", "H", "i">>
  /\ HandLines[3] = <<"<", "v", " ", "A", ">", "H", "i">>
  /\ Len(handCues) = 1
  /\ handCues[1].text = <<"H", "i", " ", "H", "i">>

\* The two timestamps of timestamp line l
HeadStart(l) == parseTimestamp(trim(split(trim(l), Arrow)[1]))
HeadEnd(l) == parseTimestamp(trim(split(trim(l), Arrow)[2]))

\* Line j lies in the block of an earlier timestamp line
Absorbed(ls, j) == \E h \in 1..(j - 1) : IsHead(ls, h) /\ j \in BlockLines(ls, h)

\* C22: the text of a cue is every non-blank line after its timestamp line up
\* to the first blank line or the end; a line that holds "-->" and follows a
\* timestamp or text line without a blank line between is part of that text
\* and starts no cue; the cues come in source order.
TextRunsToTheBlankLine ==
  handPc = "parsed" =>
    /\ Len(handCues) = Cardinality(Kept(HandLines))
    /\ Len(handCues) <=
         Cardinality({j \in 1..Len(HandLines) :
                        HasArrow(HandLines[j]) /\ ~Absorbed(HandLines, j)})
    /\ \A k \in 1..Len(handCues) :
         LET h == KeptAt(HandLines, k)
         IN /\ handCues[k].start = HeadStart(HandLines[h])
            /\ handCues[k].end = HeadEnd(HandLines[h])
            /\ handCues[k].text =
                 SpacedOut(Contents(HandLines, BlockLines(HandLines, h)))
            /\ \A j \in BlockLines(HandLines, h) :
                 HasArrow(HandLines[j]) =>
                   \E a \in 1..Len(handCues[k].text) :
                     SubSeq(handCues[k].text, a, a + Len(trim(HandLines[j])) - 1)
                       = trim(HandLines[j])
    /\ \A k \in 1..(Len(handCues) - 1) :
         KeptAt(HandLines, k) < KeptAt(HandLines, k + 1)

\* C22 witness: a timestamp line, a second timestamp line right under it, a
\* blank line and a full block: two cues, the first with the second timestamp
\* line as its text.
TextRunsToTheBlankLineWitness ==
  /\ handPc = "parsed"
  /\ Len(HandLines) = 5
  /\ SubSeq(HandLines, 1, 3) = LeadBlock
  /\ HandLines[4] = HandLines[2]
  /\ HandLines[5] = <<" ", "y", "o", " ">>
  /\ Len(handCues) = 2
  /\ handCues[1].start = 5 * TicksPerSec
  /\ handCues[1].text = trim(HandLines[2])
  /\ handCues[2].start = 1 * TicksPerSec
  /\ handCues[2].text = <<"y", "o">>

\* ------------------------------------------- transcribe command, OpenAI path

\* Sampled input files: a video, an audio file with an upper-case extension,
\* and an audio file in the working directory, given with a leading "./",
\* that has the name splitAudio gives its first chunk
InputSamples ==
  {<<"m", ".", "m", "p", "4">>, <<"m", ".", "M", "P", "3">>,
   <<".", "/", "c", "h", "u", "n", "k", "_", "0", "1", ".", "o", "g", "g">>}

\* Sampled durations ffprobe reports: one chunk, two chunks, three chunks
DurationSamples == {Whole(600), Whole(2000), Whole(3000)}

FETCH_FAILED == <<"f", "e", "t", "c", "h", " ", "f", "a", "i", "l", "e", "d">>

\* Sampled responses: two segments in time order, the second without a speaker;
\* two segments out of time order; three words 4 s apart, the third more than
\* 5 s after the first; three words, the second 5 s after the first and the
\* third 6 s after the second; text alone; nothing
ResponseSamples ==
  {[segments |-> <<[start |-> 0, end |-> 2 * TicksPerSec, speaker |-> <<"A">>,
                    text |-> <<" ", "H", "i">>],
                   [start |-> 2 * TicksPerSec, end |-> 3 * TicksPerSec, speaker |-> UNDEFINED,
                    text |-> <<"y", "o">>]>>,
    words |-> <<>>, text |-> <<>>],
   [segments |-> <<[start |-> 5 * TicksPerSec, end |-> 6 * TicksPerSec, speaker |-> <<"A">>,
                    text |-> <<"n", "o", "w">>],
                   [start |-> 1 * TicksPerSec, end |-> 3 * TicksPerSec, speaker |-> <<"B">>,
                    text |-> <<"t", "h", "e", "n">>]>>,
    words |-> <<>>, text |-> <<>>],
   [segments |-> <<>>,
    words |-> <<[word |-> <<"a">>, start |-> 0, end |-> 1 * TicksPerSec],
                [word |-> <<"b">>, start |-> 4 * TicksPerSec, end |-> 5 * TicksPerSec],
                [word |-> <<"c">>, start |-> 8 * TicksPerSec, end |-> 9 * TicksPerSec]>>,
    text |-> <<"a", " ", "b", " ", "c">>],
   [segments |-> <<>>,
    words |-> <<[word |-> <<"a">>, start |-> 0, end |-> 1 * TicksPerSec],
                [word |-> <<"b">>, start |-> 5 * TicksPerSec, end |-> 6 * TicksPerSec],
                [word |-> <<"c">>, start |-> 11 * TicksPerSec, end |-> 12 * TicksPerSec]>>,
    text |-> <<"a", " ", "b", " ", "c">>],
   [segments |-> <<>>, words |-> <<>>, text |-> <<" ", "H", "i", " ">>],
   [segments |-> <<>>, words |-> <<>>, text |-> <<>>]}

\* Sampled failures: the status and body of a response that is not ok, and the
\* message of an error fetch throws
StatusSamples == {400, 429, 500}
BodySamples == {<<>>, <<"b", "a", "d">>, FETCH_FAILED}
NetworkErrorSamples == {FETCH_FAILED, <<"a", "b", "o", "r", "t", "e", "d">>}

\* errorMessage of a response that is not ok
HttpErrorMessage(status, errorText) ==
  <<"O", "p", "e", "n", "A", "I", " ", "A", "P", "I", " ", "f", "a", "i", "l", "e", "d",
    " ", "(">> \o NumToStr(status) \o <<")">>
    \o (IF errorText # <<>> THEN <<":", " ">> \o errorText
        ELSE <<" ", "-", " ", "E", "m", "p", "t", "y", " ", "r", "e", "s", "p", "o", "n", "s", "e",
    " ", "b", "o", "d", "y">>
               \o <<NL, "R", "e", "s", "p", "o", "n", "s", "e", " ", "h", "e", "a", "d", "e", "r", "s",
    ":", " ", "{", "}">>)

InitTranscribe ==
  /\ trPc = "start"
  /\ inputFile \in InputSamples
  /\ needsExtraction = FALSE /\ chunkIdx = 0 /\ attempt = 0 /\ lastError = NULL
  /\ transcripts = <<>> /\ mergedCues = <<>> /\ unlinked = {} /\ thrown = NULL
  /\ outputVtt = <<>>
  /\ provider \in {"openai", "google"}
  /\ transcriptText = <<>> /\ geminiCues = <<>>
  /\ TsIdle /\ VttIdle /\ MergeIdle /\ PlanIdle /\ HandIdle /\ ProcIdle

\* transcribeWithOpenAI, lines 324-332: step 1, extraction
ExtractAudio ==
  /\ trPc = "start" /\ provider = "openai"
  /\ needsExtraction' = ~isAudioFile(inputFile)
  /\ audioFile' = IF needsExtraction' THEN ExtractedName(inputFile) ELSE inputFile
  /\ trPc' = "probe"
  /\ UNCHANGED <<planPc, totalDuration, maxChunkDuration, numChunks, chunkDuration, loopI,
                 audioChunks, commands, countPc, chunkCount, inputFile, chunkIdx, attempt,
                 lastError, transcripts, mergedCues, unlinked, thrown, outputVtt,
                 tsVars, vttVars, mergeVars, handVars, gemVars, procVars>>

\* lines 334-339: steps 2 and 3, the duration and the call of splitAudio
ProbeAndSplit ==
  /\ trPc = "probe"
  /\ totalDuration' \in DurationSamples
  /\ maxChunkDuration' = Whole(MAX_AUDIO_DURATION)
  /\ planPc' = "given"
  /\ trPc' = "split"
  /\ UNCHANGED <<audioFile, numChunks, chunkDuration, loopI, audioChunks, commands,
                 countPc, chunkCount, inputFile, needsExtraction, chunkIdx, attempt,
                 lastError, transcripts, mergedCues, unlinked, thrown, outputVtt,
                 tsVars, vttVars, mergeVars, handVars, gemVars, procVars>>

\* lines 340-344: splitAudio has returned; step 4 begins with chunk 0
BeginChunks ==
  /\ trPc = "split" /\ planPc = "done"
  /\ chunkIdx' = 0
  /\ attempt' = 1
  /\ lastError' = NULL
  /\ trPc' = "chunk"
  /\ UNCHANGED <<inputFile, needsExtraction, transcripts, mergedCues, unlinked, thrown,
                 outputVtt, tsVars, vttVars, mergeVars, planVars, handVars, gemVars, procVars>>

\* A plausible slip: the attempts left are counted one too many
CatchErrorOnceMore(message) ==
  /\ lastError' = message
  /\ IF attempt <= MAX_RETRIES /\ includes(message, FETCH_FAILED)
       THEN attempt' = attempt + 1 /\ UNCHANGED <<trPc, thrown>>
     ELSE trPc' = "failed" /\ thrown' = message /\ UNCHANGED attempt

\* What a caught or rejected attempt leads to (lines 511-523): one more attempt
\* when attempts are left and the message holds 'fetch failed', else the throw
\* that ends the command
CatchError(message) ==
  /\ lastError' = message
  /\ IF attempt < MAX_RETRIES /\ includes(message, FETCH_FAILED)
       THEN attempt' = attempt + 1 /\ UNCHANGED <<trPc, thrown>>
     ELSE trPc' = "failed" /\ thrown' = message /\ UNCHANGED attempt

\* transcribeOpenAIChunk, lines 471-510 and 346-347: an attempt whose response
\* is ok; the response joins transcripts and the next chunk is up
FetchOk ==
  /\ trPc = "chunk" /\ chunkIdx < Len(audioChunks)
  /\ \E response \in ResponseSamples : transcripts' = Append(transcripts, response)
  /\ chunkIdx' = chunkIdx + 1
  /\ attempt' = 1
  /\ lastError' = NULL
  /\ UNCHANGED <<trPc, inputFile, needsExtraction, mergedCues, unlinked, thrown, outputVtt,
                 tsVars, vttVars, mergeVars, planVars, handVars, gemVars, procVars>>

\* lines 479-508 and 511-523: an attempt whose response is not ok
FetchNotOk ==
  /\ trPc = "chunk" /\ chunkIdx < Len(audioChunks)
  /\ \E status \in StatusSamples, errorText \in BodySamples :
       LET errorMessage == HttpErrorMessage(status, errorText)
       IN IF (status = 429 \/ status >= 500) /\ attempt < MAX_RETRIES
            THEN /\ lastError' = errorMessage
                 /\ attempt' = attempt + 1
                 /\ UNCHANGED <<trPc, thrown>>
          ELSE CatchError(errorMessage)
  /\ UNCHANGED <<inputFile, needsExtraction, chunkIdx, transcripts, mergedCues, unlinked,
                 outputVtt, tsVars, vttVars, mergeVars, planVars, handVars, gemVars, procVars>>

\* lines 471 and 511-523: an attempt in which fetch throws
FetchThrows ==
  /\ trPc = "chunk" /\ chunkIdx < Len(audioChunks)
  /\ \E message \in NetworkErrorSamples : CatchError(message)
  /\ UNCHANGED <<inputFile, needsExtraction, chunkIdx, transcripts, mergedCues, unlinked,
                 outputVtt, tsVars, vttVars, mergeVars, planVars, handVars, gemVars, procVars>>

\* lines 350-412: step 5, every chunk has its response
MergeTranscripts ==
  /\ trPc = "chunk" /\ chunkIdx = Len(audioChunks)
  /\ mergedCues' = MergedCues(transcripts, audioChunks, Len(transcripts))
  /\ trPc' = "cleanup"
  /\ UNCHANGED <<inputFile, needsExtraction, chunkIdx, attempt, lastError, transcripts,
                 unlinked, thrown, outputVtt, tsVars, vttVars, mergeVars, planVars, handVars, gemVars, procVars>>

\* lines 414-426: the cleanup unlinks file after file; an unlink that rejects
\* ends it, and the error is dropped
Cleanup ==
  /\ trPc = "cleanup"
  /\ LET files == FilesToUnlink(needsExtraction, audioFile, inputFile, audioChunks)
     IN \E n \in 0..Len(files) : unlinked' = {files[k] : k \in 1..n}
  /\ trPc' = "return"
  /\ UNCHANGED <<inputFile, needsExtraction, chunkIdx, attempt, lastError, transcripts,
                 mergedCues, thrown, outputVtt, tsVars, vttVars, mergeVars, planVars,
                 handVars, gemVars, procVars>>

\* lines 428 and 294-299: the document is returned and written
WriteTranscript ==
  /\ trPc = "return"
  /\ outputVtt' = serializeVTT(mergedCues)
  /\ trPc' = "done"
  /\ UNCHANGED <<inputFile, needsExtraction, chunkIdx, attempt, lastError, transcripts,
                 mergedCues, unlinked, thrown, tsVars, vttVars, mergeVars, planVars,
                 handVars, gemVars, procVars>>

\* -------------------------------------------- transcribe command, Gemini path

\* `${basename(inputFile, extname(inputFile))}-audio.mp3`
GeminiExtractedName(input) ==
  basename(input, extname(input)) \o <<"-", "a", "u", "d", "i", "o", ".", "m", "p", "3">>

\* Sampled lines of an answer: a stamped line with a speaker; one with an
\* earlier time, one minutes digit and a speaker in bold; one in hours with no
\* speaker; a line without a stamp; a stamped line whose text before its colon
\* is longer than a name (17 words in all); a stamped line with a blank and
\* nothing else; twelve words without a stamp; a blank line
TranscriptLineSamples ==
  {<<"[", "0", "0", ":", "1", "0", "]", " ", "A", ":", " ", "H", "i">>,
   <<"[", "0", ":", "0", "5", "]", " ", "*", "*", "B", "*", "*", ":", " ",
     "y", "o">>,
   <<"[", "0", "1", ":", "0", "0", ":", "0", "0", "]", " ", "H", "i">>,
   <<"m", "o", "r", "e">>,
   <<"[", "0", "0", ":", "0", "7", "]", " ", "a", " ", "a", " ", "a", " ",
     "a", " ", "a", " ", "a", " ", "a", " ", "a", " ", "a", " ", "a",
     " ", "a", " ", "a", " ", "a", " ", "a", " ", "a", " ", "a", ":",
     " ", "b">>,
   <<"[", "0", "0", ":", "0", "1", "]", " ">>,
   <<"a", " ", "b", " ", "c", " ", "d", " ", "e", " ", "f", " ", "g", " ",
     "h", " ", "i", " ", "j", " ", "k", " ", "l">>,
   <<" ">>}

EMPTY_TRANSCRIPTION ==
  <<"G", "e", "m", "i", "n", "i", " ", "r", "e", "t", "u", "r", "n", "e", "d", " ",
    "e", "m", "p", "t", "y", " ", "t", "r", "a", "n", "s", "c", "r", "i", "p", "t",
    "i", "o", "n">>

\* transcribeWithGemini, lines 534-542: step 1, extraction
GeminiExtractAudio ==
  /\ trPc = "start" /\ provider = "google"
  /\ needsExtraction' = ~isAudioFile(inputFile)
  /\ audioFile' = IF needsExtraction' THEN GeminiExtractedName(inputFile) ELSE inputFile
  /\ trPc' = "generate"
  /\ UNCHANGED <<planPc, totalDuration, maxChunkDuration, numChunks, chunkDuration, loopI,
                 audioChunks, commands, countPc, chunkCount, inputFile, chunkIdx, attempt,
                 lastError, transcripts, mergedCues, unlinked, thrown, outputVtt,
                 provider, transcriptText, geminiCues,
                 tsVars, vttVars, mergeVars, handVars, procVars>>

\* lines 544-580: steps 2 and 3; the answer's text, and the throw when it is
\* empty or blank
GeminiGenerate ==
  /\ trPc = "generate"
  /\ \E lines \in SeqsUpTo(TranscriptLineSamples, MaxTranscriptLines) :
       transcriptText' = Doc(lines)
  /\ IF trim(transcriptText') = <<>>
       THEN trPc' = "failed" /\ thrown' = EMPTY_TRANSCRIPTION
     ELSE trPc' = "parse" /\ UNCHANGED thrown
  /\ UNCHANGED <<inputFile, needsExtraction, chunkIdx, attempt, lastError, transcripts,
                 mergedCues, unlinked, outputVtt, provider, geminiCues,
                 tsVars, vttVars, mergeVars, planVars, handVars, procVars>>

\* line 583: step 4
GeminiParse ==
  /\ trPc = "parse"
  /\ geminiCues' = parseGeminiTranscript(transcriptText)
  /\ trPc' = "unlink"
  /\ UNCHANGED <<inputFile, needsExtraction, chunkIdx, attempt, lastError, transcripts,
                 mergedCues, unlinked, thrown, outputVtt, provider, transcriptText,
                 tsVars, vttVars, mergeVars, planVars, handVars, procVars>>

\* lines 585-592: the cleanup unlinks the extracted audio; an unlink that
\* rejects is dropped
GeminiCleanup ==
  /\ trPc = "unlink"
  /\ \/ unlinked' = (IF needsExtraction /\ audioFile # inputFile THEN {audioFile} ELSE {})
     \/ unlinked' = {}
  /\ trPc' = "serialize"
  /\ UNCHANGED <<inputFile, needsExtraction, chunkIdx, attempt, lastError, transcripts,
                 mergedCues, thrown, outputVtt, gemVars,
                 tsVars, vttVars, mergeVars, planVars, handVars, procVars>>

\* lines 594 and 292-299: the document is returned and written
GeminiWriteTranscript ==
  /\ trPc = "serialize"
  /\ outputVtt' = serializeVTT(geminiCues)
  /\ trPc' = "done"
  /\ UNCHANGED <<inputFile, needsExtraction, chunkIdx, attempt, lastError, transcripts,
                 mergedCues, unlinked, thrown, gemVars,
                 tsVars, vttVars, mergeVars, planVars, handVars, procVars>>

NextTranscribe ==
  \/ ExtractAudio \/ ProbeAndSplit
  \/ SplitAudioWhole \/ SplitAudioBegin \/ SplitAudioCut \/ SplitAudioReturn
  \/ BeginChunks \/ FetchOk \/ FetchNotOk \/ FetchThrows
  \/ MergeTranscripts \/ Cleanup \/ WriteTranscript
  \/ GeminiExtractAudio \/ GeminiGenerate \/ GeminiParse \/ GeminiCleanup
  \/ GeminiWriteTranscript

SpecTranscribe == InitTranscribe /\ [][NextTranscribe]_vars

\* An attempt's fetch settles, with a response or with a failure: the request
\* for the chunk in hand is never pending for ever.
SpecTranscribeFair ==
  SpecTranscribe /\ WF_vars(FetchOk \/ FetchNotOk \/ FetchThrows)

\* The temporary files the command has created: the extracted audio and the
\* chunk files ffmpeg has written
TempFiles ==
  (IF needsExtraction /\ trPc # "start" THEN {audioFile} ELSE {})
    \cup {commands[k].output : k \in 1..Len(commands)}

\* C19: whenever the transcribe command has ended, with the transcript written
\* or with a chunk transcription failed, every temporary file it created has
\* been deleted.
TempFilesAreCleanedUp ==
  trPc \in {"done", "failed"} => TempFiles \subseteq unlinked

\* A step of transcribeOpenAIChunk for the chunk in hand is one of three: the
\* next attempt for the same chunk, the return of the response (the next chunk
\* is up, with its first attempt), or the throw of this attempt's error.
AttemptStep ==
  (trPc = "chunk" /\ chunkIdx < Len(audioChunks)) =>
    \/ /\ trPc' = "chunk" /\ chunkIdx' = chunkIdx /\ attempt' = attempt + 1
       /\ transcripts' = transcripts
    \/ /\ trPc' = "chunk" /\ chunkIdx' = chunkIdx + 1 /\ attempt' = 1
       /\ Len(transcripts') = Len(transcripts) + 1
       /\ SubSeq(transcripts', 1, Len(transcripts)) = transcripts
    \/ /\ trPc' = "failed" /\ attempt' = attempt /\ transcripts' = transcripts
       /\ thrown' # NULL /\ thrown' = lastError'

\* C23: for every sequence of responses and failures the attempt for a chunk is
\* never past the third; a response that is ok is returned at once and ends the
\* attempts for its chunk; an attempt that is not retried throws its own error;
\* and the work on every chunk ends, with its response returned or an error
\* thrown.
ChunkAttemptsAreBounded ==
  /\ [](trPc = "chunk" => (attempt \in 1..MAX_RETRIES /\ Len(transcripts) = chunkIdx))
  /\ [][AttemptStep]_vars
  /\ (trPc = "chunk" /\ chunkIdx < Len(audioChunks))
       ~> (trPc = "failed" \/ chunkIdx = Len(audioChunks))

\* C23 witness: the second of three chunks was answered 500 three times, and
\* the command ended with the error of the third attempt.
ChunkAttemptsAreBoundedWitness ==
  /\ trPc = "failed"
  /\ Len(audioChunks) = 3 /\ chunkIdx = 1 /\ Len(transcripts) = 1
  /\ attempt = MAX_RETRIES
  /\ thrown = HttpErrorMessage(500, <<"b", "a", "d">>)

\* The message of a response with a client-error status
ClientError(message) == \E errorText \in BodySamples : message = HttpErrorMessage(400, errorText)

\* C24: a response with a client-error status is never followed by another
\* attempt, whatever its body: no step that goes on to the next attempt has
\* the message of such a response as its error.
ClientErrorIsNeverRetried ==
  [][(trPc = "chunk" /\ trPc' = "chunk" /\ attempt' = attempt + 1)
       => ~ClientError(lastError')]_vars

\* The word that opened the cue of word k, when a cue is opened by a word
\* that starts more than 5 seconds after the word that opened the cue before
RECURSIVE OpenerByCueStart(_, _)
OpenerByCueStart(words, k) ==
  IF k = 1 THEN 1
  ELSE LET g == OpenerByCueStart(words, k - 1)
       IN IF words[k].start - words[g].start > 5 * TicksPerSec THEN k ELSE g

\* The same, when a cue is opened by a word that starts more than 5 seconds
\* after the word before it
RECURSIVE OpenerByGap(_, _)
OpenerByGap(words, k) ==
  IF k = 1 THEN 1
  ELSE IF words[k].start - words[k - 1].start > 5 * TicksPerSec THEN k
  ELSE OpenerByGap(words, k - 1)

\* The words of the lowest numbers in ks, in order
RECURSIVE WordsOf(_, _)
WordsOf(words, ks) ==
  IF ks = {} THEN <<>>
  ELSE LET k == CHOOSE m \in ks : \A n \in ks : m <= n
       IN <<words[k].word>> \o WordsOf(words, ks \ {k})

\* The cues of a word list under an opener rule: one cue per opener, from the
\* opener's start to the end of the last word of its group, with the group's
\* words in order
WordCuesBy(Opener(_, _), words, offset) ==
  LET openers == {Opener(words, k) : k \in 1..Len(words)}
      nth(c) == CHOOSE b \in openers : Cardinality({a \in openers : a <= b}) = c
      group(b) == {k \in 1..Len(words) : Opener(words, k) = b}
      last(b) == CHOOSE k \in group(b) : \A j \in group(b) : j <= k
  IN [c \in 1..Cardinality(openers) |->
        [start |-> words[nth(c)].start + offset,
         end |-> words[last(nth(c))].end + offset,
         speaker |-> NULL,
         text |-> trim(SpacedOut(WordsOf(words, group(nth(c)))))]]

\* The cues of the responses up to the n-th, all of words, under an opener rule
RECURSIVE AllWordCuesBy(_, _)
AllWordCuesBy(Opener(_, _), n) ==
  IF n = 0 THEN <<>>
  ELSE AllWordCuesBy(Opener, n - 1)
         \o WordCuesBy(Opener, transcripts[n].words, ToTicks(audioChunks[n].offset))

\* The merge step has run and every response held words and no segments
MergedFromWords ==
  /\ trPc \in {"cleanup", "return", "done"}
  /\ transcripts # <<>>
  /\ \A n \in 1..Len(transcripts) :
       Len(transcripts[n].segments) = 0 /\ Len(transcripts[n].words) > 0

\* C25, as claimed: a new cue starts exactly when a word starts more than 5
\* seconds after the word before it.
WordsGroupedByGap == MergedFromWords => mergedCues = AllWordCuesBy(OpenerByGap, Len(transcripts))

\* C25, amended: a new cue starts exactly when a word starts more than 5
\* seconds after the first word of the current cue; otherwise the word joins
\* the current cue, whose end becomes the word's end; every word is in exactly
\* one cue, in order.
WordsGroupedByCueStart ==
  MergedFromWords => mergedCues = AllWordCuesBy(OpenerByCueStart, Len(transcripts))

\* C25 witness: words starting at 0, 4 and 8 s came out as the cue "a b" from
\* 0 to 5 s and the cue "c" from 8 to 9 s.
WordsGroupedByCueStartWitness ==
  /\ MergedFromWords
  /\ Len(transcripts) = 1
  /\ transcripts[1].words[2].start = 4 * TicksPerSec
  /\ Len(mergedCues) = 2
  /\ mergedCues[1].text = <<"a", " ", "b">> /\ mergedCues[1].end = 5 * TicksPerSec
  /\ mergedCues[2].text = <<"c">> /\ mergedCues[2].start = 8 * TicksPerSec

\* parseGeminiTranscript has returned
GeminiParsed == provider = "google" /\ trPc \in {"unlink", "serialize", "done"}

\* The number of whitespace-separated words of text: its runs of characters
\* that are not white space
WordCount(text) ==
  Cardinality({k \in 1..Len(text) :
                 /\ text[k] \notin WhiteSpace \cup {NL}
                 /\ (k = 1 \/ text[k - 1] \in WhiteSpace \cup {NL})})

\* max(5, ceil(n / 2.5)) seconds, in ticks
ReadingTime(n) == (IF (2 * n + 4) \div 5 > 5 THEN (2 * n + 4) \div 5 ELSE 5) * TicksPerSec

\* C26: in the cues parseGeminiTranscript returns, the end of every cue but the
\* last is the start of the cue after it, and the end of the last cue is its
\* start plus max(5, ceil(wordCount / 2.5)) seconds, wordCount being the number
\* of whitespace-separated words of its text.
GeminiEndsFollowStarts ==
  GeminiParsed =>
    /\ \A k \in 1..(Len(geminiCues) - 1) : geminiCues[k].end = geminiCues[k + 1].start
    /\ geminiCues # <<>> =>
         LET lastCue == geminiCues[Len(geminiCues)]
         IN lastCue.end = lastCue.start + ReadingTime(WordCount(lastCue.text))

\* C27: every cue parseGeminiTranscript returns, and that is then serialized,
\* has end >= start, whatever the order of the bracketed timestamps.
GeminiCuesEndAfterStart ==
  GeminiParsed => \A k \in 1..Len(geminiCues) : geminiCues[k].end >= geminiCues[k].start

\* The file a relative path names: the path without its leading "./" (the
\* command's files are all named relative to the working directory)
RECURSIVE Resolved(_)
Resolved(path) ==
  IF Len(path) >= 2 /\ path[1] = "." /\ path[2] = "/"
    THEN Resolved(SubSeq(path, 3, Len(path)))
  ELSE path

\* C29: the transcribe command never deletes the user's input file; the
\* extracted audio is deleted only when extraction took place and the audio
\* file differs from the input, and a chunk file only when it differs from the
\* audio file that was split.
InputFileIsNeverDeleted ==
  /\ \A f \in unlinked : Resolved(f) # Resolved(inputFile)
  /\ \A f \in unlinked :
       \/ f = audioFile /\ needsExtraction /\ audioFile # inputFile
       \/ \E k \in 1..Len(audioChunks) : f = audioChunks[k].file /\ f # audioFile

\* ---------------------------------------------------------- process command

\* A value the code leaves undefined. The commands test such values only for
\* truthiness, where undefined and the empty string agree.
Undefined == ""

\* The option fields of the four commands, all undefined
NoOptions ==
  [input |-> Undefined, output |-> Undefined, outputDir |-> Undefined,
   language |-> Undefined, model |-> Undefined, style |-> Undefined,
   prompt |-> Undefined, reference |-> Undefined, help |-> FALSE]

\* The loop the four parseArgs functions share: a help flag, an option that
\* takes the next argument (undefined past the end) as the value of its
\* field, or the input when none is set yet. fields gives each command's
\* options and the field each one sets.
RECURSIVE parseArgs(_, _, _, _)
parseArgs(fields, args, i, opts) ==
  IF i > Len(args) THEN opts
  ELSE IF args[i] \in {"-h", "--help"}
    THEN parseArgs(fields, args, i + 1, [opts EXCEPT !.help = TRUE])
  ELSE IF args[i] \in DOMAIN fields
    THEN parseArgs(fields, args, i + 2,
                   [opts EXCEPT ![fields[args[i]]] =
                      IF i + 1 <= Len(args) THEN args[i + 1] ELSE Undefined])
  ELSE IF opts.input = Undefined
    THEN parseArgs(fields, args, i + 1, [opts EXCEPT !.input = args[i]])
  ELSE parseArgs(fields, args, i + 1, opts)

\* The model names of config.ts; gemini-3 is the one Google model
MODELS == {"whisper-1", "gpt-4o-transcribe", "gpt-4o-transcribe-diarize", "gemini-3"}

\* The position after a step that ended: the awaits of the try block go on to
\* the next statement when the step's promise resolved and to the catch when
\* it rejected
AfterStepGoesOn(step, outcome) ==
  CASE step = "transcribe" -> "summarize"
    [] step = "summarize" -> "infographic"
    [] OTHER -> "report"

AfterStep(step, outcome) ==
  IF outcome = "completed"
    THEN CASE step = "transcribe" -> "summarize"
           [] step = "summarize" -> "infographic"
           [] OTHER -> "report"
  ELSE "caught"

\* Arguments of the command line: an input, the help flag, the options of the
\* process command, an option only the steps know, and a model name
ArgSamples ==
  {"m.mp4", "-h", "-o", "--output-dir", "--language", "--model", "--style", "whisper-1"}

\* line 10
options ==
  parseArgs(("--output-dir" :> "outputDir") @@ ("--language" :> "language")
              @@ ("--model" :> "model") @@ ("--style" :> "style"),
            argv, 1, NoOptions)

InitProcess ==
  /\ procPc = "start"
  /\ argv \in SeqsUpTo(ArgSamples, MaxArgs)
  /\ envKeys \in SUBSET {"OPENAI_API_KEY", "GOOGLE_AI_STUDIO_KEY"}
  /\ stepArgs = <<>> /\ started = <<>> /\ finished = <<>> /\ exitCode = <<>>
  /\ TsIdle /\ VttIdle /\ MergeIdle /\ PlanIdle /\ HandIdle /\ TrIdle /\ GemIdle

\* A step is called with its arguments
Start(step, pos, args) ==
  /\ started' = Append(started, step)
  /\ stepArgs' = args
  /\ procPc' = pos
  /\ UNCHANGED <<argv, envKeys, finished, exitCode>>

\* A step's body. It calls process.exit for a missing input or a help flag,
\* for a model that is not known and for a missing API key; otherwise it does
\* its work, and its promise resolves ("completed") or rejects ("threw").
StepBody(step, o, known, key) ==
  IF o.input = Undefined \/ o.help \/ ~known \/ key \notin envKeys
    THEN /\ finished' = Append(finished, <<step, "exited">>)
         /\ procPc' = "exited"
         /\ exitCode' = <<IF o.help THEN 0 ELSE 1>>
  ELSE \E outcome \in {"completed", "threw"} :
         /\ finished' = Append(finished, <<step, outcome>>)
         /\ procPc' = AfterStep(step, outcome)
         /\ UNCHANGED exitCode

\* lines 10-24: the usage text and exit
ProcessUsage ==
  /\ procPc = "start"
  /\ IF options.input = Undefined \/ options.help
       THEN procPc' = "exited" /\ exitCode' = <<IF options.help THEN 0 ELSE 1>>
     ELSE procPc' = "keys" /\ UNCHANGED exitCode
  /\ UNCHANGED <<argv, envKeys, stepArgs, started, finished,
                 tsVars, vttVars, mergeVars, planVars, handVars, trVars, gemVars>>

\* lines 26-37: both API keys are required
CheckApiKeys ==
  /\ procPc = "keys"
  /\ IF {"OPENAI_API_KEY", "GOOGLE_AI_STUDIO_KEY"} \subseteq envKeys
       THEN procPc' = "mkdir" /\ UNCHANGED exitCode
     ELSE procPc' = "exited" /\ exitCode' = <<1>>
  /\ UNCHANGED <<argv, envKeys, stepArgs, started, finished,
                 tsVars, vttVars, mergeVars, planVars, handVars, trVars, gemVars>>

\* lines 39-46: the output directory, '.' when none is given, is made. A
\* mkdir that rejects rejects processAll, outside its try block, and the
\* catch of main in cli.ts, lines 56-59, exits with status 1.
MakeOutputDir ==
  /\ procPc = "mkdir"
  /\ \/ procPc' = "transcribe" /\ UNCHANGED exitCode
     \/ /\ options.outputDir \notin {Undefined, "."}
        /\ procPc' = "exited" /\ exitCode' = <<1>>
  /\ UNCHANGED <<argv, envKeys, stepArgs, started, finished,
                 tsVars, vttVars, mergeVars, planVars, handVars, trVars, gemVars>>

\* lines 60-70: step 1 is called. The three output paths are
\* join(outputDir, baseName + suffix); each ends with its suffix, so none is
\* empty and none equals an option.
StartTranscribe ==
  /\ procPc = "transcribe"
  /\ Start("transcribe", "transcribing",
           <<options.input, "-o", "transcript.vtt">>
             \o (IF options.language # Undefined
                   THEN <<"--language", options.language>> ELSE <<>>)
             \o (IF options.model # Undefined THEN <<"--model", options.model>> ELSE <<>>))
  /\ UNCHANGED <<tsVars, vttVars, mergeVars, planVars, handVars, trVars, gemVars>>

\* transcribe, up to its return: the model is the default one when none is
\* given, and the API key required is the one of the model's provider
RunTranscribe ==
  /\ procPc = "transcribing"
  /\ LET o == parseArgs(("-o" :> "output") @@ ("--output" :> "output")
                          @@ ("--language" :> "language") @@ ("--model" :> "model"),
                        stepArgs, 1, NoOptions)
     IN  StepBody("transcribe", o, o.model = Undefined \/ o.model \in MODELS,
                  IF o.model = "gemini-3" THEN "GOOGLE_AI_STUDIO_KEY" ELSE "OPENAI_API_KEY")
  /\ UNCHANGED <<argv, envKeys, stepArgs, started,
                 tsVars, vttVars, mergeVars, planVars, handVars, trVars, gemVars>>

\* lines 72-75: step 2 is called
StartSummarize ==
  /\ procPc = "summarize"
  /\ Start("summarize", "summarizing", <<"transcript.vtt", "-o", "summary.md">>)
  /\ UNCHANGED <<tsVars, vttVars, mergeVars, planVars, handVars, trVars, gemVars>>

\* summarize, up to its return
RunSummarize ==
  /\ procPc = "summarizing"
  /\ StepBody("summarize",
              parseArgs(("-o" :> "output") @@ ("--output" :> "output")
                          @@ ("--prompt" :> "prompt"),
                        stepArgs, 1, NoOptions),
              TRUE, "OPENAI_API_KEY")
  /\ UNCHANGED <<argv, envKeys, stepArgs, started,
                 tsVars, vttVars, mergeVars, planVars, handVars, trVars, gemVars>>

\* lines 77-84: step 3 is called
StartInfographic ==
  /\ procPc = "infographic"
  /\ Start("infographic", "drawing",
           <<"summary.md", "-o", "infographic.png">>
             \o (IF options.style # Undefined THEN <<"--style", options.style>> ELSE <<>>))
  /\ UNCHANGED <<tsVars, vttVars, mergeVars, planVars, handVars, trVars, gemVars>>

\* infographic, up to its return
RunInfographic ==
  /\ procPc = "drawing"
  /\ StepBody("infographic",
              parseArgs(("-o" :> "output") @@ ("--output" :> "output")
                          @@ ("--style" :> "style") @@ ("--reference" :> "reference"),
                        stepArgs, 1, NoOptions),
              TRUE, "GOOGLE_AI_STUDIO_KEY")
  /\ UNCHANGED <<argv, envKeys, stepArgs, started,
                 tsVars, vttVars, mergeVars, planVars, handVars, trVars, gemVars>>

\* lines 86-93: the closing report; processAll returns and the process ends
\* with status 0
ReportCompleted ==
  /\ procPc = "report"
  /\ procPc' = "returned" /\ exitCode' = <<0>>
  /\ UNCHANGED <<argv, envKeys, stepArgs, started, finished,
                 tsVars, vttVars, mergeVars, planVars, handVars, trVars, gemVars>>

\* lines 95-98: the catch of the try block
CatchPipeline ==
  /\ procPc = "caught"
  /\ procPc' = "exited" /\ exitCode' = <<1>>
  /\ UNCHANGED <<argv, envKeys, stepArgs, started, finished,
                 tsVars, vttVars, mergeVars, planVars, handVars, trVars, gemVars>>

NextProcess ==
  \/ ProcessUsage \/ CheckApiKeys \/ MakeOutputDir
  \/ StartTranscribe \/ RunTranscribe \/ StartSummarize \/ RunSummarize
  \/ StartInfographic \/ RunInfographic \/ ReportCompleted \/ CatchPipeline

SpecProcess == InitProcess /\ [][NextProcess]_vars

\* The steps of the pipeline, in order
Steps == <<"transcribe", "summarize", "infographic">>

\* The steps started are the first steps of the pipeline in order; every step
\* before the one started last completed; after a step that threw or exited
\* the command is in its catch or has exited, with status 1
StepsInOrder ==
  /\ Len(started) <= Len(Steps) /\ started = SubSeq(Steps, 1, Len(started))
  /\ Len(finished) \in {Len(started) - 1, Len(started)}
  /\ \A k \in 1..Len(finished) : finished[k][1] = started[k]
  /\ \A k \in 1..(Len(started) - 1) : finished[k][2] = "completed"
  /\ \A k \in 1..Len(finished) :
       finished[k][2] # "completed" =>
         /\ procPc \in {"caught", "exited"}
         /\ procPc = "exited" => exitCode = <<1>>

\* From the catch the only step is the exit with status 1, and once the
\* process has exited no step starts
FailureEndsThePipeline ==
  /\ procPc = "caught" => procPc' = "exited" /\ exitCode' = <<1>> /\ started' = started
  /\ procPc = "exited" => started' = started /\ exitCode' = exitCode

\* C30: the process command starts transcribe, summarize and infographic in
\* this order, each only after the step before it completed without error;
\* after a step that failed no step starts and the process exits with status 1
PipelineStepsRunInOrder == []StepsInOrder /\ [][FailureEndsThePipeline]_vars

\* Transcription completed, the summary step threw, the infographic step never
\* started and the process has exited with status 1
PipelineStepsRunInOrderWitness ==
  /\ started = <<"transcribe", "summarize">>
  /\ finished = <<<<"transcribe", "completed">>, <<"summarize", "threw">>>>
  /\ procPc = "exited" /\ exitCode = <<1>>

====
